---- MODULE Spec2Model ----
(***************************************************************************)
(* TickerAI: the tool-calling agent loop (runStockAnalysis), its three     *)
(* tool adapters, the Massive market-data service, the tRPC router and     *)
(* the page's ticker gate.                                                 *)
(*                                                                         *)
(* Text is modelled as a sequence of one-character strings, so that        *)
(* trimming, upper-casing and the ticker regular expression act on the     *)
(* characters.  A text built from a template literal is a record naming    *)
(* the template and the values put into its holes.                         *)
(*                                                                         *)
(* JavaScript runs a handler without interruption up to its next await,    *)
(* so one action is the code from one await to the next.                   *)
(***************************************************************************)
EXTENDS Integers, Sequences, FiniteSets, TLC

\* ------------------------------------------------------------------ bounds
\* The language-model stub's plain request is a response with one call of
\* get_stock_data that carries an id; it may make any number of them.  A
\* call departs from it once for each of: another call follows it in the
\* same response, it names another tool or no registered tool, it carries
\* no id.  This is the most departures the stub makes in a turn.
MaxIrregularCalls == 1

\* The strings put to the ticker format check: a run of at most MaxRun
\* letters followed by at most MaxTail further characters.
MaxRun == 7
MaxTail == 2

\* The most calls of handleSubmit that get past its empty-input return.
MaxSubmits == 2
MaxBatch == 2
MaxEffects == 3
MaxFetches == 3

\* ------------------------------------------------------------------ text
LowerChars ==
    << "a", "b", "c", "d", "e", "f", "g", "h", "i", "j", "k", "l", "m",
       "n", "o", "p", "q", "r", "s", "t", "u", "v", "w", "x", "y", "z" >>

UpperChars ==
    << "A", "B", "C", "D", "E", "F", "G", "H", "I", "J", "K", "L", "M",
       "N", "O", "P", "Q", "R", "S", "T", "U", "V", "W", "X", "Y", "Z" >>

UpperSet == { UpperChars[i] : i \in 1..26 }

LowerSet == { LowerChars[i] : i \in 1..26 }

toUpperCaseChar(c) ==
    IF c \in LowerSet
    THEN UpperChars[CHOOSE i \in 1..26 : LowerChars[i] = c]
    ELSE c

\* String.prototype.toUpperCase
toUpperCase(s) == [i \in 1..Len(s) |-> toUpperCaseChar(s[i])]

Whitespace == { " " }

RECURSIVE trimStart(_)
trimStart(s) ==
    IF Len(s) > 0 /\ s[1] \in Whitespace THEN trimStart(Tail(s)) ELSE s

RECURSIVE trimEnd(_)
trimEnd(s) ==
    IF Len(s) > 0 /\ s[Len(s)] \in Whitespace
    THEN trimEnd(SubSeq(s, 1, Len(s) - 1))
    ELSE s

\* String.prototype.trim
trim(s) == trimEnd(trimStart(s))

\* ------------------------------------------------- the ticker format check
\* A regular expression is a tree: a character class, a sequence, a
\* bounded repetition, an option.
Class(chars) == [kind |-> "class", chars |-> chars]

Concat(parts) == [kind |-> "seq", parts |-> parts]

Repeat(sub, min, max) == [kind |-> "rep", sub |-> sub, min |-> min, max |-> max]

Optional(sub) == [kind |-> "opt", sub |-> sub]

\* the places where a match of re that starts at place i of s may end
RECURSIVE Ends(_, _, _)
\* ... of a match of the parts from the k-th on, started at one of from
RECURSIVE EndsOfParts(_, _, _, _)
\* ... of n further matches of sub, started at one of from
RECURSIVE EndsOfTimes(_, _, _, _)
Ends(re, s, i) ==
    CASE re.kind = "class" ->
            IF i <= Len(s) /\ s[i] \in re.chars THEN { i + 1 } ELSE {}
      [] re.kind = "seq" -> EndsOfParts(re.parts, 1, s, { i })
      [] re.kind = "opt" -> { i } \cup Ends(re.sub, s, i)
      [] OTHER ->
            UNION { EndsOfTimes(re.sub, n, s, { i }) : n \in re.min..re.max }

EndsOfParts(parts, k, s, from) ==
    IF k > Len(parts) THEN from
    ELSE EndsOfParts(parts, k + 1, s, UNION { Ends(parts[k], s, i) : i \in from })

EndsOfTimes(sub, n, s, from) ==
    IF n = 0 THEN from
    ELSE EndsOfTimes(sub, n - 1, s, UNION { Ends(sub, s, i) : i \in from })

\* RegExp.prototype.test of an expression anchored by ^ and $
RegexTest(re, s) == (Len(s) + 1) \in Ends(re, s, 1)

\* a format check that stops at five letters
tickerRegex_fiveLetters ==
    Concat(<< Repeat(Class(UpperSet), 1, 5),
              Optional(Concat(<< Class({ ".", "-" }), Class(UpperSet) >>)) >>)

\* /^[A-Z]{1,6}([.-][A-Z])?$/
tickerRegex ==
    Concat(<< Repeat(Class(UpperSet), 1, 6),
              Optional(Concat(<< Class({ ".", "-" }), Class(UpperSet) >>)) >>)

\* handleSubmit's format check of what was typed
formatCheck(input) ==
    LET ticker == toUpperCase(trim(input)) IN
    [ticker |-> ticker, accepted |-> RegexTest(tickerRegex, ticker)]

\* ------------------------------------------------------------ the gateway
\* What the provider answers on one endpoint: the HTTP outcome and the
\* "results" of the body (<<>> when the body has none).
HttpStatuses == { "ok", "http_error", "network_error" }

NoError == [msg |-> "", arg |-> <<>>]

\* MassiveService.fetchAPI: throws on a failed fetch or a non-ok status
fetchAPI(resp) ==
    IF resp.status = "ok"
    THEN [threw |-> FALSE, value |-> resp.results, error |-> NoError]
    ELSE IF resp.status = "http_error"
    THEN [threw |-> TRUE, value |-> <<>>,
          error |-> [msg |-> "Massive API failed", arg |-> <<>>]]
    ELSE IF resp.status = "bad_body"
    THEN [threw |-> TRUE, value |-> <<>>,
          error |-> [msg |-> "Unexpected token", arg |-> <<>>]]
    ELSE [threw |-> TRUE, value |-> <<>>,
          error |-> [msg |-> "fetch failed", arg |-> <<>>]]

\* a getStockAggregates that hands back whatever came
getStockAggregates_emptyOk(ticker, resp) == fetchAPI(resp)

\* MassiveService.getStockAggregates: the one method that lets errors out
getStockAggregates(ticker, resp) ==
    LET data == fetchAPI(resp) IN
    IF data.threw THEN data
    ELSE IF Len(data.value) = 0
    THEN [threw |-> TRUE, value |-> <<>>,
          error |-> [msg |-> "No stock data available for", arg |-> ticker]]
    ELSE data

\* MassiveService.getTickerDetails: <<>> stands for null
getTickerDetails(resp) ==
    LET data == fetchAPI(resp) IN
    IF data.threw THEN <<>> ELSE data.value

\* a getNews that makes up an article when the call fails
getNews_placeholder(resp) ==
    LET data == fetchAPI(resp) IN
    IF data.threw
    THEN << [title |-> "unavailable", description |-> "", insights |-> <<>>] >>
    ELSE data.value

\* MassiveService.getNews
getNews(resp) ==
    LET data == fetchAPI(resp) IN
    IF data.threw THEN <<>> ELSE data.value

\* MassiveService.getPreviousClose: <<>> stands for null
getPreviousClose(resp) ==
    LET data == fetchAPI(resp) IN
    IF data.threw THEN <<>>
    ELSE IF Len(data.value) = 0 THEN <<>>
    ELSE << data.value[1] >>

\* MassiveService.getRSI
getRSI(resp) ==
    LET data == fetchAPI(resp) IN
    IF data.threw THEN <<>> ELSE data.value

\* MassiveService.getSMA
getSMA(resp) ==
    LET data == fetchAPI(resp) IN
    IF data.threw THEN <<>> ELSE data.value

\* ------------------------------------------------------------ the adapters
\* An optional value is a sequence of at most one element: <<>> is
\* undefined or null.
OrElse(opt, dflt) == IF Len(opt) = 0 THEN dflt ELSE opt[1]

\* a || null on an optional number: 0 is falsy in JavaScript
OrNull(opt) == IF Len(opt) = 0 \/ opt[1] = 0 THEN <<>> ELSE <<opt[1]>>

aggregateDays == 30
rsiWindow == 14
sma10Window == 10
sma20Window == 20
newsDefaultLimit == 5

RECURSIVE SumSeq(_)
SumSeq(s) == IF Len(s) = 0 THEN 0 ELSE s[1] + SumSeq(Tail(s))

MaxOf(S) == CHOOSE x \in S : \A y \in S : y <= x
MinOf(S) == CHOOSE x \in S : \A y \in S : x <= y

\* metrics whose percentage is taken of the latest close
stockMetrics_ofLatest(aggregates, rsiData, sma10Data, sma20Data) ==
    LET n == Len(aggregates)
        closes == { aggregates[i].c : i \in 1..n }
        volumes == [i \in 1..n |-> aggregates[i].v]
        latest == aggregates[n]
        hasPrevious == n >= 2
        previousC == IF hasPrevious THEN aggregates[n - 1].c ELSE latest.c
    IN  [currentPrice |-> latest.c,
         previousClose |-> previousC,
         change |-> latest.c - previousC,
         changePercent |->
            IF hasPrevious
            THEN << (latest.c - previousC) * 100, latest.c >>
            ELSE << 0, 1 >>,
         dayHigh |-> latest.h,
         dayLow |-> latest.l,
         volume |-> latest.v,
         avgVolume |-> << SumSeq(volumes), n >>,
         rsi |-> OrNull(IF Len(rsiData) = 0 THEN <<>> ELSE <<rsiData[1]>>),
         sma10 |-> OrNull(IF Len(sma10Data) = 0 THEN <<>> ELSE <<sma10Data[1]>>),
         sma20 |-> OrNull(IF Len(sma20Data) = 0 THEN <<>> ELSE <<sma20Data[1]>>),
         priceRangeHigh |-> MaxOf(closes),
         priceRangeLow |-> MinOf(closes)]

\* calculateStockMetrics once its three indicator fetches have returned.
\* A quotient is kept as <<numerator, denominator>>.
stockMetrics(aggregates, rsiData, sma10Data, sma20Data) ==
    LET n == Len(aggregates)
        closes == { aggregates[i].c : i \in 1..n }
        volumes == [i \in 1..n |-> aggregates[i].v]
        latest == aggregates[n]
        hasPrevious == n >= 2
        previousC == IF hasPrevious THEN aggregates[n - 1].c ELSE latest.c
    IN  [currentPrice |-> latest.c,
         previousClose |-> previousC,
         change |-> latest.c - previousC,
         changePercent |->
            IF hasPrevious
            THEN << (latest.c - previousC) * 100, previousC >>
            ELSE << 0, 1 >>,
         dayHigh |-> latest.h,
         dayLow |-> latest.l,
         volume |-> latest.v,
         avgVolume |-> << SumSeq(volumes), n >>,
         rsi |-> OrNull(IF Len(rsiData) = 0 THEN <<>> ELSE <<rsiData[1]>>),
         sma10 |-> OrNull(IF Len(sma10Data) = 0 THEN <<>> ELSE <<sma10Data[1]>>),
         sma20 |-> OrNull(IF Len(sma20Data) = 0 THEN <<>> ELSE <<sma20Data[1]>>),
         priceRangeHigh |-> MaxOf(closes),
         priceRangeLow |-> MinOf(closes)]

\* The text an adapter hands back: a template and what fills it.
Text(kind, ticker, detail) == [kind |-> kind, ticker |-> ticker, detail |-> detail]

\* One call of a MassiveService method, as the provider sees it.
GatewayCall(endpoint, ticker, param) ==
    [endpoint |-> endpoint, ticker |-> ticker, param |-> param]

\* A tool call's args as the model gave them. form tells how they stand to
\* the tool's schema: "ok" conforms, "noTicker" lacks the ticker, "badLimit"
\* has a limit that is not a number, "none" is no object at all.
Args(form, ticker, limit) == [form |-> form, ticker |-> ticker, limit |-> limit]

\* `${ticker}` of a ticker that is not there
undefinedText == << "u", "n", "d", "e", "f", "i", "n", "e", "d" >>

\* a limit that is not a number, as it goes into the request
NotANumber == 0 - 1

NoAdapter ==
    [name |-> "", args |-> Args("", <<>>, <<>>), at |-> "",
     aggregates |-> <<>>, rsiData |-> <<>>, sma10Data |-> <<>>, calls |-> <<>>]

\* tool.func(args) up to its first await: the adapter's first gateway call
adapterStart(name, args) ==
    LET T == toUpperCase(args.ticker) IN
    [NoAdapter EXCEPT
        !.name = name,
        !.args = args,
        !.at = CASE name = "get_stock_data" -> "aggs"
                 [] name = "get_stock_news" -> "news"
                 [] OTHER -> "details",
        !.calls =
            CASE name = "get_stock_data" ->
                    << GatewayCall("aggs", T, aggregateDays) >>
              [] name = "get_stock_news" ->
                    << GatewayCall("news", T,
                          IF args.form = "badLimit" THEN NotANumber
                          ELSE OrElse(args.limit, newsDefaultLimit)) >>
              [] OTHER -> << GatewayCall("details", T, 0) >>]

\* How a resumed adapter leaves off: returned with a text, threw an error,
\* or awaits again.
Returned(text) ==
    [done |-> TRUE, threw |-> FALSE, result |-> text, error |-> NoError,
     adapter |-> NoAdapter]

Threw(error) ==
    [done |-> TRUE, threw |-> TRUE, result |-> Text("", <<>>, <<>>), error |-> error,
     adapter |-> NoAdapter]

Pending(ad) ==
    [done |-> FALSE, threw |-> FALSE, result |-> Text("", <<>>, <<>>),
     error |-> NoError, adapter |-> ad]

\* (tool.func as any)(args) up to its first await: destructuring no object
\* throws, ticker.toUpperCase() of no ticker throws inside the adapter's try,
\* anything else gets to the gateway
adapterCall(name, args) ==
    IF args.form = "none"
    THEN Threw([msg |-> "Cannot destructure property 'ticker'", arg |-> <<>>])
    ELSE IF args.form = "noTicker"
    THEN Returned(Text(CASE name = "get_stock_data" -> "Error fetching stock data for"
                         [] name = "get_stock_news" -> "Error fetching news for"
                         [] OTHER -> "Error fetching company details for",
                       undefinedText,
                       << [msg |-> "Cannot read properties of undefined",
                           arg |-> <<>>] >>))
    ELSE Pending(adapterStart(name, args))

\* an adapter that lets the gateway's error out
stockDataResume_rethrow(ad, resp) ==
    LET T == toUpperCase(ad.args.ticker) IN
    CASE ad.at = "aggs" ->
            LET r == getStockAggregates(T, resp) IN
            IF r.threw
            THEN Threw(r.error)
            ELSE Pending([ad EXCEPT
                    !.aggregates = r.value,
                    !.at = "rsi",
                    !.calls = Append(@, GatewayCall("rsi", T, rsiWindow))])
      [] ad.at = "rsi" ->
            Pending([ad EXCEPT !.rsiData = getRSI(resp), !.at = "pause1"])
      [] ad.at = "sma10" ->
            Pending([ad EXCEPT !.sma10Data = getSMA(resp), !.at = "pause2"])
      [] OTHER ->
            Returned(Text("StockDataJson", T,
                << stockMetrics(ad.aggregates, ad.rsiData, ad.sma10Data,
                                getSMA(resp)) >>))

\* an adapter that asks for the short average before the RSI, and never
\* for the RSI
stockDataResume_smaFirst(ad, resp) ==
    LET T == toUpperCase(ad.args.ticker) IN
    CASE ad.at = "aggs" ->
            LET r == getStockAggregates(T, resp) IN
            IF r.threw
            THEN Returned(Text("Error fetching stock data for", ad.args.ticker,
                               << r.error >>))
            ELSE Pending([ad EXCEPT
                    !.aggregates = r.value,
                    !.at = "sma10",
                    !.calls = Append(@, GatewayCall("sma10", T, sma10Window))])
      [] ad.at = "sma10" ->
            Pending([ad EXCEPT !.sma10Data = getSMA(resp), !.at = "pause2"])
      [] OTHER ->
            Returned(Text("StockDataJson", T,
                << stockMetrics(ad.aggregates, ad.rsiData, ad.sma10Data,
                                getSMA(resp)) >>))

\* createStockDataTool's func, resumed with the answer to the call it awaits
stockDataResume(ad, resp) ==
    LET T == toUpperCase(ad.args.ticker) IN
    CASE ad.at = "aggs" ->
            LET r == getStockAggregates(T, resp) IN
            IF r.threw
            THEN Returned(Text("Error fetching stock data for", ad.args.ticker,
                               << r.error >>))
            ELSE Pending([ad EXCEPT
                    !.aggregates = r.value,
                    !.at = "rsi",
                    !.calls = Append(@, GatewayCall("rsi", T, rsiWindow))])
      [] ad.at = "rsi" ->
            Pending([ad EXCEPT !.rsiData = getRSI(resp), !.at = "pause1"])
      [] ad.at = "sma10" ->
            Pending([ad EXCEPT !.sma10Data = getSMA(resp), !.at = "pause2"])
      [] OTHER ->
            Returned(Text("StockDataJson", T,
                << stockMetrics(ad.aggregates, ad.rsiData, ad.sma10Data,
                                getSMA(resp)) >>))

\* calculateStockMetrics after one of its 500 ms pauses
stockDataAfterPause(ad) ==
    LET T == toUpperCase(ad.args.ticker) IN
    IF ad.at = "pause1"
    THEN [ad EXCEPT !.at = "sma10",
                    !.calls = Append(@, GatewayCall("sma10", T, sma10Window))]
    ELSE [ad EXCEPT !.at = "sma20",
                    !.calls = Append(@, GatewayCall("sma20", T, sma20Window))]

\* one article as the news adapter formats it
formatArticle(article, index) ==
    [number |-> index,
     title |-> article.title,
     description |->
        IF article.description = "" THEN "No description avaliable."
        ELSE article.description,
     sentiment |->
        IF Len(article.insights) = 0 \/ article.insights[1] = ""
        THEN "neutral" ELSE article.insights[1]]

\* a news adapter without its empty-result branch
newsResume_emptyJson(ad, resp) ==
    LET news == getNews(resp) IN
    Returned(Text("NewsJson", toUpperCase(ad.args.ticker),
            [i \in 1..Len(news) |-> formatArticle(news[i], i)]))

\* createNewsDataTool's func, resumed with the answer to getNews
newsResume(ad, resp) ==
    LET news == getNews(resp) IN
    IF Len(news) = 0
    THEN Returned(Text("No recent news for", ad.args.ticker, <<>>))
    ELSE Returned(Text("NewsJson", toUpperCase(ad.args.ticker),
            [i \in 1..Len(news) |-> formatArticle(news[i], i)]))

\* createCompanyDetailsTool's func, resumed with the answer to getTickerDetails
detailsResume(ad, resp) ==
    LET details == getTickerDetails(resp) IN
    IF Len(details) = 0
    THEN Returned(Text("No company details found for", ad.args.ticker, <<>>))
    ELSE Returned(Text("CompanyDetailsJson", details[1].ticker, details))

adapterResume(ad, resp) ==
    CASE ad.name = "get_stock_data" -> stockDataResume(ad, resp)
      [] ad.name = "get_stock_news" -> newsResume(ad, resp)
      [] OTHER -> detailsResume(ad, resp)

\* ---------------------------------------------------------- the agent loop
VARIABLES
    pc,          \* where the turn stands: ready, awaitModel, awaitFetch,
                 \* awaitTimer, done, failed, rejected
    request,     \* the tRPC request being served
    gateway,     \* what the provider answers on each endpoint this turn
    messages,    \* runStockAnalysis' messages array
    iterations,  \* runStockAnalysis' iterations counter
    toolCalls,   \* response.tool_calls of the response being worked on
    idx,         \* index into toolCalls of the call whose adapter runs
    adapter,     \* the running adapter's locals and the gateway calls it made
    outcome,     \* what the router hands to its caller
    nextCallId,  \* the provider's next fresh tool-call id
    modelCalls,  \* history: number of modelWithTools.invoke calls issued
    respLog,     \* history: per settled model invocation, whether it threw,
                 \* its number of tool calls and its text
    toolRuns,    \* history: the tool calls whose adapter was invoked, in order
    invoked      \* history: the messages each modelWithTools.invoke was given

agentVars ==
    << pc, request, gateway, messages, iterations, toolCalls, idx, adapter,
       outcome, nextCallId, modelCalls, respLog, toolRuns, invoked >>

VARIABLES
    gate         \* the format check: the string put to it, the ticker made
                 \* of it and the verdict

VARIABLES
    page,        \* StockAnalysisPage's state: messages, input,
                 \* analysisPerformed, conversations, currentConversationId,
                 \* activeTicker, and the call each mutation hook follows
    submits,     \* the calls of handleSubmit: what each closed over, how far
                 \* it and the requests it made have come
    lookups,     \* history: the provider lookups of the validate-ticker route
    agentRuns    \* history: the router's invocations of runStockAnalysis

uiVars == << page, submits, lookups, agentRuns >>

VARIABLES
    svc,         \* one call of a MassiveService method: the method, its
                 \* arguments, where it stands, the requests it has sent,
                 \* the provider's answer and how it ended
    chart        \* one StockChart component: its props, state and refs, and
                 \* the fetches it has in flight

maxIterations == 5

\* !toolCall.id
NoId == 0

\* the names of the tools array
ToolNames == { "get_stock_data", "get_stock_news", "get_company_details" }

Literal(str) == Text("Literal", <<>>, << str >>)

SystemMessage(content) ==
    [role |-> "system", content |-> content, tool_calls |-> <<>>, tool_call_id |-> NoId]

HumanMessage(content) ==
    [role |-> "human", content |-> content, tool_calls |-> <<>>, tool_call_id |-> NoId]

AIMessage(content, calls) ==
    [role |-> "ai", content |-> content, tool_calls |-> calls, tool_call_id |-> NoId]

ToolMessage(content, id) ==
    [role |-> "tool", content |-> content, tool_calls |-> <<>>, tool_call_id |-> id]

SYSTEM_PROMPT == Text("SYSTEM_PROMPT", <<>>, <<>>)

\* messages that begin with the new input
initialMessages_inputFirst(input, chatHistory) ==
    << SystemMessage(SYSTEM_PROMPT), HumanMessage(input) >>
    \o [i \in 1..Len(chatHistory) |->
            IF chatHistory[i].role = "user"
            THEN HumanMessage(chatHistory[i].content)
            ELSE AIMessage(chatHistory[i].content, <<>>)]

\* runStockAnalysis' messages before the loop
initialMessages(input, chatHistory) ==
    << SystemMessage(SYSTEM_PROMPT) >>
    \o [i \in 1..Len(chatHistory) |->
            IF chatHistory[i].role = "user"
            THEN HumanMessage(chatHistory[i].content)
            ELSE AIMessage(chatHistory[i].content, <<>>)]
    \o << HumanMessage(input) >>

NoOutcome ==
    [status |-> "pending", answer |-> Literal(""),
     error |-> [router |-> "", agent |-> "", cause |-> ""]]

\* the router's "Failed to ..." around runStockAnalysis' "Failed to analyze: ..."
routerError(req, cause) ==
    [status |-> "error", answer |-> Literal(""),
     error |-> [router |-> IF req.procedure = "analyze"
                           THEN "Failed to analyze <ticker>"
                           ELSE "Failed to process question",
                agent |-> "Failed to analyze",
                cause |-> cause]]

\* Where the code stands at its next await, or at its end; ran lists the
\* indexes of the tool calls whose adapter was called on the way.
Control(p, msgs, iter, i, ad, out) ==
    [pc |-> p, messages |-> msgs, iterations |-> iter, idx |-> i,
     adapter |-> ad, outcome |-> out, ran |-> <<>>]

AwaitOf(ad) == IF ad.at \in { "pause1", "pause2" } THEN "awaitTimer" ELSE "awaitFetch"

\* a loop that lets a sixth invocation through
whileLoop_offByOne(req, msgs, iter) ==
    IF iter <= maxIterations
    THEN Control("awaitModel", msgs, iter + 1, 0, NoAdapter, NoOutcome)
    ELSE Control("failed", msgs, iter, 0, NoAdapter,
                 routerError(req, "Max iterations reached"))

\* a loop that gives up one invocation early
whileLoop_oneShort(req, msgs, iter) ==
    IF iter < maxIterations - 1
    THEN Control("awaitModel", msgs, iter + 1, 0, NoAdapter, NoOutcome)
    ELSE Control("failed", msgs, iter, 0, NoAdapter,
                 routerError(req, "Max iterations reached"))

\* the while loop's head: either the next model invocation or the throw
\* after the loop
whileLoop(req, msgs, iter) ==
    IF iter < maxIterations
    THEN Control("awaitModel", msgs, iter + 1, 0, NoAdapter, NoOutcome)
    ELSE Control("failed", msgs, iter, 0, NoAdapter,
                 routerError(req, "Max iterations reached"))

\* a loop that forgets the model's request
pushResponse_skip(msgs, content, calls) == msgs

\* a loop that puts the model's request in front of the messages
pushResponse_front(msgs, content, calls) == << AIMessage(content, calls) >> \o msgs

\* messages.push(response)
pushResponse(msgs, content, calls) == Append(msgs, AIMessage(content, calls))

\* a result tagged with the id of the response's first call
toolResult_firstId(calls, i, content) == ToolMessage(content, calls[1].id)

\* the ToolMessage pushed for the call at index i
toolResult(calls, i, content) == ToolMessage(content, calls[i].id)

\* a loop that reports a thrown error as an empty result
settledResult_blank(calls, i, r) == toolResult(calls, i, r.result)

\* what is pushed for the call at index i once its adapter r has settled:
\* its result, or the text of the error it threw
settledResult(calls, i, r) ==
    IF r.threw
    THEN toolResult(calls, i, Text("Error", <<>>, << r.error >>))
    ELSE toolResult(calls, i, r.result)

\* the for loop over toolCalls from index i on, up to the next await
RECURSIVE forLoop(_, _, _, _, _)
\* a for loop that never gets past a call it skips
forLoop_spin(req, msgs, calls, i, iter) ==
    IF i > Len(calls) THEN whileLoop(req, msgs, iter)
    ELSE IF calls[i].name \notin ToolNames \/ calls[i].id = NoId
    THEN Control("spinning", msgs, iter, i, NoAdapter, NoOutcome)
    ELSE [Control("awaitFetch", msgs, iter, i,
                  adapterStart(calls[i].name, calls[i].args), NoOutcome)
             EXCEPT !.ran = << i >>]

\* a for loop that calls the next adapter while it awaits this one
forLoop_eager(req, msgs, calls, i, iter) ==
    IF i > Len(calls) THEN whileLoop(req, msgs, iter)
    ELSE IF calls[i].name \notin ToolNames \/ calls[i].id = NoId
    THEN forLoop(req, msgs, calls, i + 1, iter)
    ELSE LET r == adapterCall(calls[i].name, calls[i].args) IN
         IF r.done
         THEN LET rest == forLoop(req, Append(msgs, settledResult(calls, i, r)),
                                  calls, i + 1, iter)
              IN  [rest EXCEPT !.ran = << i >> \o @]
         ELSE [Control("awaitFetch", msgs, iter, i, r.adapter, NoOutcome)
                  EXCEPT !.ran = IF i < Len(calls) THEN << i, i + 1 >> ELSE << i >>]

\* a for loop that a skipped call ends
forLoop_break(req, msgs, calls, i, iter) ==
    IF i > Len(calls) THEN whileLoop(req, msgs, iter)
    ELSE IF calls[i].name \notin ToolNames \/ calls[i].id = NoId
    THEN whileLoop(req, msgs, iter)
    ELSE LET r == adapterCall(calls[i].name, calls[i].args) IN
         IF r.done
         THEN LET rest == forLoop(req, Append(msgs, settledResult(calls, i, r)),
                                  calls, i + 1, iter)
              IN  [rest EXCEPT !.ran = << i >> \o @]
         ELSE [Control("awaitFetch", msgs, iter, i, r.adapter, NoOutcome)
                  EXCEPT !.ran = << i >>]

forLoop(req, msgs, calls, i, iter) ==
    IF i > Len(calls) THEN whileLoop(req, msgs, iter)
    ELSE IF calls[i].name \notin ToolNames
    THEN forLoop(req, msgs, calls, i + 1, iter)
    ELSE IF calls[i].id = NoId
    THEN forLoop(req, msgs, calls, i + 1, iter)
    ELSE LET r == adapterCall(calls[i].name, calls[i].args) IN
         IF r.done
         THEN LET rest == forLoop(req, Append(msgs, settledResult(calls, i, r)),
                                  calls, i + 1, iter)
              IN  [rest EXCEPT !.ran = << i >> \o @]
         ELSE [Control("awaitFetch", msgs, iter, i, r.adapter, NoOutcome)
                  EXCEPT !.ran = << i >>]

\* ------------------------------------------------- the turn's environment
aapl == << "a", "a", "p", "l" >>
AAPL == << "A", "A", "P", "L" >>

Bar(c, h, l, v) == [c |-> c, h |-> h, l |-> l, v |-> v]

Ok(results) == [status |-> "ok", results |-> results]

HttpError == [status |-> "http_error", results |-> <<>>]

NetworkError == [status |-> "network_error", results |-> <<>>]

GwAllOk ==
    [aggs |-> Ok(<< Bar(95, 96, 94, 10), Bar(100, 101, 99, 20) >>),
     rsi |-> Ok(<< 55 >>),
     sma10 |-> Ok(<< 98 >>),
     sma20 |-> Ok(<< 90 >>),
     news |-> Ok(<< [title |-> "t1", description |-> "", insights |-> << "positive" >>] >>),
     details |-> Ok(<< [ticker |-> AAPL, name |-> "Apple Inc."] >>)]

GwAllFail ==
    [aggs |-> HttpError, rsi |-> HttpError, sma10 |-> NetworkError,
     sma20 |-> HttpError, news |-> HttpError, details |-> NetworkError]

\* bars come, the indicators fail, news and details come back empty
GwIndicatorsFail ==
    [aggs |-> Ok(<< Bar(100, 101, 99, 20) >>),
     rsi |-> HttpError, sma10 |-> NetworkError, sma20 |-> HttpError,
     news |-> Ok(<<>>), details |-> Ok(<<>>)]

\* the providers a turn of the agent runs against
Gateways == { GwAllOk, GwAllFail, GwIndicatorsFail }

\* tickers a client may send to the router
RouterTickers == { aapl, <<>> }

\* chat histories a client may send
ChatHistories ==
    { <<>>,
      << [role |-> "user", content |-> Literal("q0")],
         [role |-> "assistant", content |-> Literal("a0")] >> }

\* the argument payloads the language model supplies
ModelArgs == { Args("ok", aapl, <<>>) }

\* the final answers the language model gives
AnswerTexts == { "answer A", "answer B" }

CallNames == ToolNames \cup { "get_weather" }

CallShapes == [name : CallNames, hasId : BOOLEAN, args : ModelArgs]

IsSkipped(call) == call.name \notin ToolNames \/ call.id = NoId

\* how far the call at place k departs from the plain request
Departures(calls, k) ==
    (IF k < Len(calls) THEN 1 ELSE 0)
    + (IF calls[k].name # "get_stock_data" THEN 1 ELSE 0)
    + (IF calls[k].id = NoId THEN 1 ELSE 0)

\* the departures of the tool calls of one response
Irregular(calls) == SumSeq([k \in 1..Len(calls) |-> Departures(calls, k)])

RECURSIVE IrregularIn(_)
IrregularIn(msgs) ==
    IF Len(msgs) = 0 THEN 0
    ELSE (IF Len(msgs[1].tool_calls) > 0 THEN Irregular(msgs[1].tool_calls) ELSE 0)
         + IrregularIn(Tail(msgs))

\* the provider numbers the calls of a response with fresh ids
withIds(shapes, firstId) ==
    [k \in 1..Len(shapes) |->
        [name |-> shapes[k].name,
         id |-> IF shapes[k].hasId THEN firstId + k - 1 ELSE NoId,
         args |-> shapes[k].args]]

\* the tool-call lists the language-model stub may answer with, given how
\* many departures it may still make this turn
ModelToolCalls(firstId, left) ==
    { calls \in
        { withIds(shapes, firstId) :
            shapes \in UNION { [1..n -> CallShapes] : n \in 1..(left + 1) } } :
        Irregular(calls) <= left }

\* no string has been put to the format check
NoGate == [input |-> <<>>, ticker |-> <<>>, verdict |-> "untested"]

AgentInit ==
    /\ pc = "ready"
    /\ request = [procedure |-> "", ticker |-> <<>>, question |-> "", chatHistory |-> <<>>]
    /\ gateway = GwAllOk
    /\ messages = <<>>
    /\ iterations = 0
    /\ toolCalls = <<>>
    /\ idx = 0
    /\ adapter = NoAdapter
    /\ outcome = NoOutcome
    /\ nextCallId = 1
    /\ modelCalls = 0
    /\ respLog = <<>>
    /\ toolRuns = <<>>
    /\ invoked = <<>>

\* no MassiveService method has been called
NoCall ==
    [method |-> "", ticker |-> <<>>, param |-> 0, at |-> "idle",
     outbound |-> <<>>, answer |-> <<>>, result |-> <<>>]

\* no chart is on the page
NoChart ==
    [mounted |-> FALSE, ticker |-> <<>>, timeframe |-> "30D",
     chartData |-> <<>>, loading |-> TRUE, error |-> <<>>,
     lastFetchedTicker |-> <<>>, lastFetchedTimeframe |-> "30D",
     inFlight |-> {}, sent |-> <<>>, effects |-> 0]

Elsewhere == svc = NoCall /\ chart = NoChart

\* the page as first rendered; <<>> stands for null, 0 for no call
PageInit ==
    /\ page = [messages |-> <<>>, input |-> <<>>, analysisPerformed |-> FALSE,
               conversations |-> <<>>, currentConversationId |-> <<>>,
               activeTicker |-> <<>>, analyzeMutation |-> 0, chatMutation |-> 0]
    /\ submits = <<>>
    /\ lookups = <<>>
    /\ agentRuns = <<>>

Init ==
    /\ AgentInit
    /\ gate = NoGate
    /\ PageInit
    /\ Elsewhere

\* the state at the code's next await
Goto(k, startsAdapter) ==
    /\ pc' = k.pc
    /\ messages' = k.messages
    /\ iterations' = k.iterations
    /\ idx' = k.idx
    /\ adapter' = k.adapter
    /\ outcome' = k.outcome
    /\ modelCalls' = IF k.pc = "awaitModel" THEN modelCalls + 1 ELSE modelCalls
    /\ invoked' = IF k.pc = "awaitModel" THEN Append(invoked, k.messages) ELSE invoked
    /\ toolRuns' = IF startsAdapter
                   THEN toolRuns \o [j \in 1..Len(k.ran) |-> toolCalls'[k.ran[j]]]
                   ELSE toolRuns
    /\ UNCHANGED << gate, uiVars, svc, chart >>

\* zod: z.string().min(1).max(10)
tickerInputOk(t) == Len(t) >= 1 /\ Len(t) <= 10

InputRejected ==
    [status |-> "error", answer |-> Literal(""),
     error |-> [router |-> "BAD_REQUEST", agent |-> "", cause |-> ""]]

\* stockRouter.analyze up to runStockAnalysis' first model invocation
Analyze ==
    \E t \in RouterTickers, gw \in Gateways :
        LET req == [procedure |-> "analyze", ticker |-> toUpperCase(t),
                    question |-> "", chatHistory |-> <<>>]
        IN  /\ pc = "ready"
            /\ request' = req
            /\ gateway' = gw
            /\ UNCHANGED << toolCalls, nextCallId, respLog >>
            /\ IF tickerInputOk(t)
               THEN Goto(whileLoop(req,
                            initialMessages(Text("AnalyzePrompt", req.ticker, <<>>), <<>>),
                            0), FALSE)
               ELSE Goto(Control("rejected", <<>>, 0, 0, NoAdapter, InputRejected), FALSE)

\* stockRouter.chat up to runStockAnalysis' first model invocation
Chat ==
    \E t \in RouterTickers, h \in ChatHistories, gw \in Gateways :
        LET req == [procedure |-> "chat", ticker |-> toUpperCase(t),
                    question |-> "q1", chatHistory |-> h]
        IN  /\ pc = "ready"
            /\ request' = req
            /\ gateway' = gw
            /\ UNCHANGED << toolCalls, nextCallId, respLog >>
            /\ IF tickerInputOk(t)
               THEN Goto(whileLoop(req,
                            initialMessages(Text("ChatPrompt", req.ticker, << req.question >>),
                                            req.chatHistory),
                            0), FALSE)
               ELSE Goto(Control("rejected", <<>>, 0, 0, NoAdapter, InputRejected), FALSE)

\* a loop that adds its answer to the history it was given
ModelAnswers_intoHistory ==
    \E text \in AnswerTexts :
        /\ pc = "awaitModel"
        /\ respLog' = Append(respLog, [threw |-> FALSE, nCalls |-> 0, text |-> text])
        /\ request' = [request EXCEPT !.chatHistory =
              Append(@, [role |-> "assistant", content |-> Literal(text)])]
        /\ UNCHANGED << gateway, toolCalls, nextCallId >>
        /\ Goto(Control("done", messages, iterations, 0, NoAdapter,
                        [NoOutcome EXCEPT !.status = "ok", !.answer = Literal(text)]),
                FALSE)

\* the model invocation resolves with no tool call: the final answer
ModelAnswers ==
    \E text \in AnswerTexts :
        /\ pc = "awaitModel"
        /\ respLog' = Append(respLog, [threw |-> FALSE, nCalls |-> 0, text |-> text])
        /\ UNCHANGED << request, gateway, toolCalls, nextCallId >>
        /\ Goto(Control("done", messages, iterations, 0, NoAdapter,
                        [NoOutcome EXCEPT !.status = "ok", !.answer = Literal(text)]),
                FALSE)

\* the model invocation resolves with one of the given tool-call lists
ModelResponds(callLists) ==
    /\ pc = "awaitModel"
    /\ \E calls \in callLists :
        /\ respLog' = Append(respLog, [threw |-> FALSE, nCalls |-> Len(calls), text |-> ""])
        /\ toolCalls' = calls
        /\ nextCallId' = nextCallId + Len(calls)
        /\ UNCHANGED << request, gateway >>
        /\ Goto(forLoop(request, pushResponse(messages, Literal(""), calls),
                        calls, 1, iterations),
                TRUE)

\* the model invocation resolves with tool calls
ModelRequestsTools ==
    ModelResponds(ModelToolCalls(nextCallId,
                                 MaxIrregularCalls - IrregularIn(messages)))

\* a loop that swallows the rejection and asks the model again
ModelThrows_retry ==
    /\ pc = "awaitModel"
    /\ respLog' = Append(respLog, [threw |-> TRUE, nCalls |-> 0, text |-> ""])
    /\ UNCHANGED << request, gateway, toolCalls, nextCallId >>
    /\ Goto(whileLoop(request, messages, iterations), FALSE)

\* the model invocation rejects
ModelThrows ==
    /\ pc = "awaitModel"
    /\ respLog' = Append(respLog, [threw |-> TRUE, nCalls |-> 0, text |-> ""])
    /\ UNCHANGED << request, gateway, toolCalls, nextCallId >>
    /\ Goto(Control("failed", messages, iterations, 0, NoAdapter,
                    routerError(request, "model invocation failed")),
            FALSE)

\* the gateway call the running adapter awaits settles
FetchSettles ==
    /\ pc = "awaitFetch"
    /\ UNCHANGED << request, gateway, toolCalls, nextCallId, respLog >>
    /\ LET r == adapterResume(adapter, gateway[adapter.at]) IN
       IF r.done
       THEN Goto(forLoop(request,
                         Append(messages, settledResult(toolCalls, idx, r)),
                         toolCalls, idx + 1, iterations),
                 TRUE)
       ELSE Goto(Control(AwaitOf(r.adapter), messages, iterations, idx,
                         r.adapter, NoOutcome),
                 FALSE)

\* one of calculateStockMetrics' pauses ends
TimerFires ==
    /\ pc = "awaitTimer"
    /\ UNCHANGED << request, gateway, toolCalls, nextCallId, respLog >>
    /\ Goto(Control("awaitFetch", messages, iterations, idx,
                    stockDataAfterPause(adapter), NoOutcome),
            FALSE)

Next ==
    \/ Analyze
    \/ Chat
    \/ ModelAnswers
    \/ ModelRequestsTools
    \/ ModelThrows
    \/ FetchSettles
    \/ TimerFires

vars == << agentVars, gate, uiVars, svc, chart >>

Spec == Init /\ [][Next]_vars

\* the fairness of the JavaScript runtime and of the services awaited: a
\* pending model invocation, gateway call or timer eventually settles
LiveSpec ==
    /\ Spec
    /\ WF_vars(ModelAnswers \/ ModelRequestsTools \/ ModelThrows)
    /\ WF_vars(FetchSettles)
    /\ WF_vars(TimerFires)

\* ------------------------------------------------- one run of one adapter
\* what the provider may answer on each endpoint
AdapterGateways ==
    [aggs : { Ok(<< Bar(95, 96, 94, 10), Bar(100, 101, 99, 20) >>),
              Ok(<< Bar(100, 101, 99, 20), Bar(90, 96, 89, 30) >>),
              Ok(<< Bar(100, 101, 99, 20) >>),
              Ok(<<>>), HttpError },
     rsi : { Ok(<< 55 >>), Ok(<< 0 >>), Ok(<<>>), HttpError },
     sma10 : { Ok(<< 98 >>), NetworkError },
     sma20 : { Ok(<< 90 >>), Ok(<<>>) },
     news : { Ok(<< [title |-> "t1", description |-> "", insights |-> << "positive" >>],
                    [title |-> "t2", description |-> "d2", insights |-> <<>>] >>),
              Ok(<<>>), HttpError, NetworkError },
     details : { Ok(<< [ticker |-> AAPL, name |-> "Apple Inc."] >>),
                 Ok(<<>>), HttpError, NetworkError }]

\* the argument payloads of the one call
AdapterArgs ==
    { Args("ok", aapl, <<>>), Args("ok", AAPL, << 1 >>),
      Args("noTicker", <<>>, <<>>), Args("badLimit", aapl, <<>>),
      Args("none", <<>>, <<>>) }

\* an analysis whose first response asked for one tool: the loop is about
\* to run that tool's adapter
AdapterInit ==
    \E name \in ToolNames, args \in AdapterArgs, gw \in AdapterGateways :
        LET req == [procedure |-> "analyze", ticker |-> AAPL,
                    question |-> "", chatHistory |-> <<>>]
            first == whileLoop(req,
                        initialMessages(Text("AnalyzePrompt", req.ticker, <<>>), <<>>), 0)
            tcs == withIds(<< [name |-> name, hasId |-> TRUE, args |-> args] >>, 1)
            k == forLoop(req, pushResponse(first.messages, Literal(""), tcs),
                         tcs, 1, first.iterations)
        IN  /\ request = req
            /\ gateway = gw
            /\ pc = k.pc
            /\ messages = k.messages
            /\ iterations = k.iterations
            /\ toolCalls = tcs
            /\ idx = k.idx
            /\ adapter = k.adapter
            /\ outcome = k.outcome
            /\ nextCallId = 2
            /\ modelCalls = IF k.pc = "awaitModel" THEN 2 ELSE 1
            /\ respLog = << [threw |-> FALSE, nCalls |-> 1, text |-> ""] >>
            /\ toolRuns = [j \in 1..Len(k.ran) |-> tcs[k.ran[j]]]
            /\ invoked = IF k.pc = "awaitModel"
                         THEN << first.messages, k.messages >>
                         ELSE << first.messages >>
            /\ gate = NoGate
            /\ PageInit
            /\ Elsewhere

AdapterNext ==
    \/ FetchSettles
    \/ TimerFires

AdapterSpec == AdapterInit /\ [][AdapterNext]_vars

\* -------------------------------- one response with several tool calls
\* the providers such a turn runs against
BatchGateways == { GwAllOk, GwAllFail }

\* the payloads of such a response's calls
BatchArgs == { Args("ok", aapl, <<>>), Args("none", <<>>, <<>>) }

BatchShapes == [name : CallNames, hasId : BOOLEAN, args : BatchArgs]

\* every list of up to MaxBatch tool calls, registered or not, with or
\* without an id
Batches(firstId) ==
    { withIds(shapes, firstId) :
        shapes \in UNION { [1..n -> BatchShapes] : n \in 1..MaxBatch } }

\* an analysis at its first model invocation
BatchInit ==
    \E gw \in BatchGateways :
        LET req == [procedure |-> "analyze", ticker |-> AAPL,
                    question |-> "", chatHistory |-> <<>>]
            first == whileLoop(req,
                        initialMessages(Text("AnalyzePrompt", req.ticker, <<>>), <<>>), 0)
        IN  /\ request = req
            /\ gateway = gw
            /\ pc = first.pc
            /\ messages = first.messages
            /\ iterations = first.iterations
            /\ toolCalls = <<>>
            /\ idx = first.idx
            /\ adapter = first.adapter
            /\ outcome = first.outcome
            /\ nextCallId = 1
            /\ modelCalls = 1
            /\ respLog = <<>>
            /\ toolRuns = <<>>
            /\ invoked = << first.messages >>
            /\ gate = NoGate
            /\ PageInit
            /\ Elsewhere

\* the first model invocation resolves with any list of tool calls
ModelRequestsBatch ==
    /\ modelCalls = 1
    /\ ModelResponds(Batches(nextCallId))

BatchNext ==
    \/ ModelRequestsBatch
    \/ ModelAnswers
    \/ ModelThrows
    \/ FetchSettles
    \/ TimerFires

BatchSpec == BatchInit /\ [][BatchNext]_vars

\* ------------------------------------------ the format check on its own
Letter == << "A" >>

RECURSIVE Run(_)
Run(n) == IF n = 0 THEN <<>> ELSE Letter \o Run(n - 1)

TailChars == { "a", "Z", "7", ".", "-", " " }

Tails == UNION { [1..n -> TailChars] : n \in 0..MaxTail }

\* the strings of the specification's examples
ExampleInputs ==
    { << "A", "A", "P", "L" >>,
      << "B", "R", "K", ".", "B" >>,
      << "B", "F", "-", "A" >>,
      << "a", "a", "p", "l", "1" >>,
      << "T", "O", "O", "L", "O", "N", "G", "7" >>,
      <<>>,
      << "1", "2", "3" >> }

TickerInputs ==
    { lead \o Run(n) \o tail :
        lead \in { <<>>, << " " >> }, n \in 0..MaxRun, tail \in Tails }
    \cup ExampleInputs

TickerInit ==
    /\ AgentInit
    /\ PageInit
    /\ Elsewhere
    /\ \E input \in TickerInputs : gate = [NoGate EXCEPT !.input = input]

\* handleSubmit's format check applied to the string
TestTicker ==
    /\ gate.verdict = "untested"
    /\ LET r == formatCheck(gate.input) IN
       gate' = [gate EXCEPT
                   !.ticker = r.ticker,
                   !.verdict = IF r.accepted THEN "accepted" ELSE "rejected"]
    /\ UNCHANGED << agentVars, uiVars, svc, chart >>

TickerNext == TestTicker

TickerSpec == TickerInit /\ [][TickerNext]_vars

\* ------------------------------------------ one call of a gateway method
Methods ==
    { "getStockAggregates", "getTickerDetails", "getNews", "getPreviousClose",
      "getRSI", "getSMA" }

GatewayTickers == { AAPL, << "M", "S", "F", "T" >> }

\* the second argument a method is called with (0 where it has none)
MethodParams(method) ==
    CASE method = "getStockAggregates" -> { aggregateDays }
      [] method = "getNews" -> { newsDefaultLimit }
      [] method = "getRSI" -> { rsiWindow }
      [] method = "getSMA" -> { sma10Window, sma20Window }
      [] OTHER -> { 0 }

\* the request a method sends
endpointOf(method) ==
    CASE method = "getStockAggregates" -> "aggs"
      [] method = "getTickerDetails" -> "details"
      [] method = "getNews" -> "news"
      [] method = "getPreviousClose" -> "prev"
      [] method = "getRSI" -> "rsi"
      [] OTHER -> "sma"

BadBody == [status |-> "bad_body", results |-> <<>>]

\* what the provider may answer to a method's request
ProviderAnswers(method) ==
    { HttpError, NetworkError, BadBody, Ok(<<>>) }
    \cup
    CASE method \in { "getStockAggregates", "getPreviousClose" } ->
            { Ok(<< Bar(100, 101, 99, 20) >>),
              Ok(<< Bar(95, 96, 94, 10), Bar(100, 101, 99, 20) >>) }
      [] method = "getTickerDetails" ->
            { Ok(<< [ticker |-> AAPL, name |-> "Apple Inc."] >>) }
      [] method = "getNews" ->
            { Ok(<< [title |-> "t1", description |-> "", insights |-> <<>>] >>) }
      [] OTHER -> { Ok(<< 0 >>), Ok(<< 55 >>) }

\* how the method called ends, given the provider's answer
gatewayResult(method, ticker, resp) ==
    IF method = "getStockAggregates" THEN getStockAggregates(ticker, resp)
    ELSE [threw |-> FALSE,
          value |-> CASE method = "getTickerDetails" -> getTickerDetails(resp)
                      [] method = "getNews" -> getNews(resp)
                      [] method = "getPreviousClose" -> getPreviousClose(resp)
                      [] method = "getRSI" -> getRSI(resp)
                      [] OTHER -> getSMA(resp),
          error |-> NoError]

\* a method is called and fetchAPI sends its request
GatewayInvoke ==
    /\ svc.at = "idle"
    /\ \E method \in Methods, ticker \in GatewayTickers :
        \E param \in MethodParams(method) :
            svc' = [NoCall EXCEPT
                       !.method = method,
                       !.ticker = ticker,
                       !.param = param,
                       !.at = "awaitFetch",
                       !.outbound = << GatewayCall(endpointOf(method), ticker, param) >>]
    /\ UNCHANGED << agentVars, gate, uiVars, chart >>

\* fetch settles: a rejection ends the method, a response is read next
FetchAPIResponds ==
    /\ svc.at = "awaitFetch"
    /\ \E resp \in ProviderAnswers(svc.method) :
        svc' = IF resp.status = "network_error"
               THEN [svc EXCEPT
                        !.at = "settled",
                        !.answer = << resp >>,
                        !.result = << gatewayResult(svc.method, svc.ticker, resp) >>]
               ELSE [svc EXCEPT
                        !.at = IF resp.status = "http_error"
                               THEN "awaitText" ELSE "awaitJson",
                        !.answer = << resp >>]
    /\ UNCHANGED << agentVars, gate, uiVars, chart >>

\* a fetchAPI that asks again after a response that is not ok
BodyRead_retry ==
    /\ svc.at \in { "awaitText", "awaitJson" }
    /\ svc' = IF svc.at = "awaitText" /\ Len(svc.outbound) < 2
              THEN [svc EXCEPT
                       !.at = "awaitFetch",
                       !.outbound = Append(@, svc.outbound[1])]
              ELSE [svc EXCEPT
                       !.at = "settled",
                       !.result = << gatewayResult(svc.method, svc.ticker,
                                                   svc.answer[1]) >>]
    /\ UNCHANGED << agentVars, gate, uiVars, chart >>

\* response.text() or response.json() settles and the method ends
BodyRead ==
    /\ svc.at \in { "awaitText", "awaitJson" }
    /\ svc' = [svc EXCEPT
                  !.at = "settled",
                  !.result = << gatewayResult(svc.method, svc.ticker,
                                              svc.answer[1]) >>]
    /\ UNCHANGED << agentVars, gate, uiVars, chart >>

GatewayNext ==
    \/ GatewayInvoke
    \/ FetchAPIResponds
    \/ BodyRead

GatewaySpec == Init /\ [][GatewayNext]_vars

\* ------------------------------------------------------- the stock chart
\* The tickers the parent may pass and the timeframes of the selector.
ChartTickers == { AAPL, << "M", "S", "F", "T" >> }

Timeframes == { "7D", "30D", "90D" }

\* what /api/stock-chart may answer to a request: data for the pair asked,
\* no data, success: false, a status that is not ok, or no answer at all
ChartAnswers(f) ==
    { [kind |-> "data", data |-> << [ticker |-> f.ticker, timeframe |-> f.timeframe] >>],
      [kind |-> "data", data |-> <<>>],
      [kind |-> "failure", data |-> <<>>],
      [kind |-> "http_error", data |-> <<>>],
      [kind |-> "network_error", data |-> <<>>] }

\* fetchChartData up to its fetch: by tells who called it
fetchChartData(c, by) ==
    [c EXCEPT
        !.loading = TRUE,
        !.error = <<>>,
        !.inFlight = @ \cup { [id |-> Len(c.sent) + 1, ticker |-> c.ticker,
                               timeframe |-> c.timeframe] },
        !.sent = Append(@, [ticker |-> c.ticker, timeframe |-> c.timeframe,
                            by |-> by,
                            lastTicker |-> c.lastFetchedTicker,
                            lastTimeframe |-> c.lastFetchedTimeframe])]

\* fetchChartData from the answer to its fetch on
fetchChartDataSettles(c, f, answer) ==
    [c EXCEPT
        !.chartData = IF answer.kind = "data" THEN answer.data ELSE @,
        !.error = CASE answer.kind = "data" -> @
                    [] answer.kind = "failure" -> << "Failed to load chart data" >>
                    [] answer.kind = "http_error" -> << "Failed to fetch chart data" >>
                    [] OTHER -> << "fetch failed" >>,
        !.loading = FALSE,
        !.inFlight = @ \ { f }]

\* an effect that does not note what it fetched
useEffect_forgetful(c) ==
    IF c.ticker # c.lastFetchedTicker \/ c.timeframe # c.lastFetchedTimeframe
    THEN [fetchChartData(c, "effect") EXCEPT !.effects = @ + 1]
    ELSE [c EXCEPT !.effects = @ + 1]

\* the body of the effect on [ticker, timeframe]
useEffect(c) ==
    IF c.ticker # c.lastFetchedTicker \/ c.timeframe # c.lastFetchedTimeframe
    THEN [fetchChartData(c, "effect") EXCEPT
             !.lastFetchedTicker = c.ticker,
             !.lastFetchedTimeframe = c.timeframe,
             !.effects = @ + 1]
    ELSE [c EXCEPT !.effects = @ + 1]

\* what the component renders: the spinner, the error with Retry, the
\* no-data note, or the chart with the timeframe selector
ChartView(c) ==
    IF c.loading THEN "spinner"
    ELSE IF c.error # <<>> THEN "error"
    ELSE IF Len(c.chartData) = 0 THEN "nodata"
    ELSE "chart"

MayFetch == chart.effects < MaxEffects /\ Len(chart.sent) < MaxFetches

\* the page renders a StockChart for a message's ticker
ChartMounts ==
    /\ ~chart.mounted
    /\ \E t \in ChartTickers :
        chart' = useEffect([NoChart EXCEPT !.mounted = TRUE, !.ticker = t])
    /\ UNCHANGED << agentVars, gate, uiVars, svc >>

\* the parent renders the same StockChart with another ticker
TickerPropChanges ==
    /\ chart.mounted
    /\ MayFetch
    /\ \E t \in ChartTickers \ { chart.ticker } :
        chart' = useEffect([chart EXCEPT !.ticker = t])
    /\ UNCHANGED << agentVars, gate, uiVars, svc >>

\* a click on a timeframe button: setTimeframe, and the effect when the
\* timeframe has changed
SelectTimeframe ==
    /\ chart.mounted
    /\ ChartView(chart) = "chart"
    /\ MayFetch
    /\ \E tf \in Timeframes \ { chart.timeframe } :
        chart' = useEffect([chart EXCEPT !.timeframe = tf])
    /\ UNCHANGED << agentVars, gate, uiVars, svc >>

\* the effect runs again with ticker and timeframe as they are
EffectReruns ==
    /\ chart.mounted
    /\ MayFetch
    /\ chart' = useEffect(chart)
    /\ UNCHANGED << agentVars, gate, uiVars, svc >>

\* a click on Retry
Retry ==
    /\ chart.mounted
    /\ ChartView(chart) = "error"
    /\ Len(chart.sent) < MaxFetches
    /\ chart' = fetchChartData(chart, "retry")
    /\ UNCHANGED << agentVars, gate, uiVars, svc >>

\* one of the fetches in flight is answered
ChartFetchSettles ==
    /\ \E f \in chart.inFlight :
        \E answer \in ChartAnswers(f) :
            chart' = fetchChartDataSettles(chart, f, answer)
    /\ UNCHANGED << agentVars, gate, uiVars, svc >>

ChartNext ==
    \/ ChartMounts
    \/ TickerPropChanges
    \/ SelectTimeframe
    \/ EffectReruns
    \/ Retry
    \/ ChartFetchSettles

ChartSpec == Init /\ [][ChartNext]_vars

\* ---------------------------------------------------------------- the page
\* what a user types into the input
UIInputs == { aapl, << "a", "1" >> }

\* maxLength of the input
tickerMaxLength == 5
questionMaxLength == 500

\* how many conversations saveConversationToHistory keeps besides a new one
conversationsKept == 19

ChatMessage(type, content, ticker) ==
    [type |-> type, content |-> content, ticker |-> ticker]

NoResult ==
    [threw |-> FALSE, valid |-> FALSE, ok |-> FALSE, ticker |-> <<>>,
     text |-> Text("", <<>>, <<>>)]

\* one call of handleSubmit; routeSaw keeps what the validate-ticker route
\* met when it served the call, validAnswer the result.valid it answered
Submission(kind, ticker, formatOk, stage) ==
    [kind |-> kind, ticker |-> ticker, question |-> <<>>, chatHistory |-> <<>>,
     formatOk |-> formatOk, routeSaw |-> <<>>, validAnswer |-> <<>>,
     stage |-> stage, result |-> NoResult]

\* useMutation's isPending: the hook follows the call that last mutated
isPending(mutation) ==
    mutation # 0 /\ submits[mutation].stage \in { "requested", "responded" }

isLoading == isPending(page.analyzeMutation) \/ isPending(page.chatMutation)

\* a submit that goes on whatever the validation answered
validationPassed_always(result) == TRUE

\* if (!result.valid) has let the submit through
validationPassed(result) == result.valid

\* the input's onChange
TypeInput ==
    \E text \in UIInputs :
        /\ ~isLoading
        /\ Len(submits) < MaxSubmits
        /\ text # page.input
        /\ Len(text) <= IF page.analysisPerformed
                        THEN questionMaxLength ELSE tickerMaxLength
        /\ page' = [page EXCEPT !.input = text]
        /\ UNCHANGED << submits, lookups, agentRuns, agentVars, gate, svc, chart >>

\* handleSubmit up to its await, or to its end
Submit ==
    /\ ~isLoading
    /\ Len(submits) < MaxSubmits
    /\ Len(trim(page.input)) > 0
    /\ UNCHANGED << lookups, agentRuns, agentVars, gate, svc, chart >>
    /\ IF ~page.analysisPerformed
       THEN LET r == formatCheck(page.input) IN
            IF ~r.accepted
            THEN /\ page' = [page EXCEPT !.messages =
                       << ChatMessage("assistant",
                                      Text("Invalid ticker format", <<>>, <<>>), <<>>) >>]
                 /\ submits' = Append(submits,
                       Submission("analysis", r.ticker, FALSE, "badFormat"))
            ELSE /\ page' = [page EXCEPT
                       !.messages =
                           << ChatMessage("assistant",
                                  Text("Validating ticker symbol", <<>>, <<>>), <<>>) >>,
                       !.input = <<>>]
                 /\ submits' = Append(submits,
                       Submission("analysis", r.ticker, TRUE, "validating"))
       ELSE LET userMessage == ChatMessage("user",
                                   Text("UserInput", page.input, <<>>), <<>>)
                chatHistory == [i \in 1..Len(page.messages) |->
                    [role |-> IF page.messages[i].type = "user"
                              THEN "user" ELSE "assistant",
                     content |-> page.messages[i].content]]
            IN  IF Len(page.activeTicker) > 0
                THEN /\ page' = [page EXCEPT
                           !.messages = Append(@, userMessage),
                           !.input = <<>>,
                           !.chatMutation = Len(submits) + 1]
                     /\ submits' = Append(submits,
                           [Submission("chat", page.activeTicker[1], TRUE, "requested")
                               EXCEPT !.question = page.input,
                                      !.chatHistory = chatHistory])
                ELSE /\ page' = [page EXCEPT
                           !.messages = Append(@, userMessage),
                           !.input = <<>>]
                     /\ submits' = Append(submits,
                           Submission("chat", <<>>, TRUE, "settled"))

\* what the provider may answer to the lookup of a ticker
LookupAnswers ==
    { [status |-> "ok", ticker |-> << "found" >>],
      [status |-> "ok", ticker |-> <<>>],
      [status |-> "not_found", ticker |-> <<>>],
      [status |-> "http_error", ticker |-> <<>>],
      [status |-> "network_error", ticker |-> <<>>] }

\* whether MASSIVE_API_KEY is set where the route runs
ApiKeys == BOOLEAN

\* a route that takes any successful response for a ticker
POST_anyOk(ticker, apiKey, answer) ==
    IF Len(ticker) = 0 THEN [status |-> 400, valid |-> FALSE]
    ELSE IF ~apiKey THEN [status |-> 500, valid |-> FALSE]
    ELSE IF answer.status = "network_error" THEN [status |-> 500, valid |-> FALSE]
    ELSE IF answer.status = "not_found" THEN [status |-> 200, valid |-> FALSE]
    ELSE IF answer.status # "ok" THEN [status |-> 200, valid |-> FALSE]
    ELSE [status |-> 200, valid |-> TRUE]

\* the validate-ticker route's POST, given the provider's answer
POST(ticker, apiKey, answer) ==
    IF Len(ticker) = 0 THEN [status |-> 400, valid |-> FALSE]
    ELSE IF ~apiKey THEN [status |-> 500, valid |-> FALSE]
    ELSE IF answer.status = "network_error" THEN [status |-> 500, valid |-> FALSE]
    ELSE IF answer.status = "not_found" THEN [status |-> 200, valid |-> FALSE]
    ELSE IF answer.status # "ok" THEN [status |-> 200, valid |-> FALSE]
    ELSE IF Len(answer.ticker) > 0 THEN [status |-> 200, valid |-> TRUE]
    ELSE [status |-> 200, valid |-> FALSE]

\* the validate-ticker route serves the request of submit i, or the request
\* fails on its way
ValidateTicker(i) ==
    /\ submits[i].stage = "validating"
    /\ UNCHANGED << page, agentRuns, agentVars, gate, svc, chart >>
    /\ \/ \E apiKey \in ApiKeys, answer \in LookupAnswers :
            /\ lookups' = IF apiKey /\ Len(submits[i].ticker) > 0
                          THEN Append(lookups,
                                  [submit |-> i,
                                   ticker |-> toUpperCase(submits[i].ticker)])
                          ELSE lookups
            /\ submits' = [submits EXCEPT
                  ![i].stage = "validated",
                  ![i].routeSaw = << [apiKey |-> apiKey, answer |-> answer] >>,
                  ![i].validAnswer =
                      << POST(submits[i].ticker, apiKey, answer).valid >>,
                  ![i].result = [NoResult EXCEPT
                      !.valid = POST(submits[i].ticker, apiKey, answer).valid]]
       \/ /\ lookups' = lookups
          /\ submits' = [submits EXCEPT
                ![i].stage = "validated",
                ![i].result = [NoResult EXCEPT !.threw = TRUE]]

\* handleSubmit after its await of the validation
ValidationArrives(i) ==
    /\ submits[i].stage = "validated"
    /\ UNCHANGED << lookups, agentRuns, agentVars, gate, svc, chart >>
    /\ LET ticker == submits[i].ticker
           result == submits[i].result
       IN  IF result.threw
           THEN /\ page' = [page EXCEPT
                      !.messages =
                          << ChatMessage("assistant",
                                 Text("Unable to validate ticker", <<>>, <<>>), <<>>) >>,
                      !.input = ticker]
                /\ submits' = [submits EXCEPT ![i].stage = "unvalidated"]
           ELSE IF ~validationPassed(result)
           THEN /\ page' = [page EXCEPT
                      !.messages =
                          << ChatMessage("assistant",
                                 Text("is not a valid stock ticker", ticker, <<>>), <<>>) >>]
                /\ submits' = [submits EXCEPT ![i].stage = "notValid"]
           ELSE /\ page' = [page EXCEPT
                      !.activeTicker = << ticker >>,
                      !.analyzeMutation = i]
                /\ submits' = [submits EXCEPT ![i].stage = "requested"]

\* what a turn of the agent comes to
TurnResults == { TRUE, FALSE }

\* stockRouter.analyze or stockRouter.chat serves the request of submit i
Route(i) ==
    /\ submits[i].stage = "requested"
    /\ UNCHANGED << page, lookups, agentVars, gate, svc, chart >>
    /\ IF tickerInputOk(submits[i].ticker)
       THEN \E ok \in TurnResults :
            LET ticker == toUpperCase(submits[i].ticker) IN
            /\ agentRuns' = Append(agentRuns,
                  [procedure |-> IF submits[i].kind = "analysis"
                                 THEN "analyze" ELSE "chat",
                   submit |-> i, ticker |-> ticker,
                   chatHistory |-> submits[i].chatHistory])
            /\ submits' = [submits EXCEPT
                  ![i].stage = "responded",
                  ![i].result = [NoResult EXCEPT
                      !.ok = ok,
                      !.ticker = ticker,
                      !.text = IF ok THEN Text("Answer", ticker, <<>>)
                               ELSE Text("Error", <<>>, <<>>)]]
       ELSE /\ agentRuns' = agentRuns
            /\ submits' = [submits EXCEPT
                  ![i].stage = "responded",
                  ![i].result = [NoResult EXCEPT !.text = Text("Error", <<>>, <<>>)]]

\* a saveConversationToHistory that keeps conversationsKept + 1 of the
\* conversations it had
saveConversationToHistory_keepsOneMore(pg, ticker, updatedMessages, now) ==
    LET existing == { k \in 1..Len(pg.conversations) :
                        << pg.conversations[k].id >> = pg.currentConversationId }
    IN  IF existing # {}
        THEN [pg EXCEPT
                !.conversations[MinOf(existing)].messages = updatedMessages]
        ELSE [pg EXCEPT
                !.conversations =
                    << [id |-> now, ticker |-> ticker, messages |-> updatedMessages] >>
                    \o SubSeq(@, 1, IF Len(@) < conversationsKept + 1
                                    THEN Len(@) ELSE conversationsKept + 1),
                !.currentConversationId = << now >>]

\* saveConversationToHistory; the time is the new conversation's id
saveConversationToHistory(pg, ticker, updatedMessages, now) ==
    LET existing == { k \in 1..Len(pg.conversations) :
                        << pg.conversations[k].id >> = pg.currentConversationId }
    IN  IF existing # {}
        THEN [pg EXCEPT
                !.conversations[MinOf(existing)].messages = updatedMessages]
        ELSE [pg EXCEPT
                !.conversations =
                    << [id |-> now, ticker |-> ticker, messages |-> updatedMessages] >>
                    \o SubSeq(@, 1, IF Len(@) < conversationsKept
                                    THEN Len(@) ELSE conversationsKept),
                !.currentConversationId = << now >>]

\* Date.now() where a request settles: a clock that has ticked once for each
\* request settled before
Now == 1 + Cardinality({ j \in 1..Len(submits) : submits[j].stage = "settled" })

\* a mutation's onSuccess or onError
MutationSettles(i) ==
    /\ submits[i].stage = "responded"
    /\ UNCHANGED << lookups, agentRuns, agentVars, gate, svc, chart >>
    /\ submits' = [submits EXCEPT ![i].stage = "settled"]
    /\ LET data == submits[i].result
           assistantMessage ==
               ChatMessage("assistant", data.text,
                           IF submits[i].kind = "analysis" /\ data.ok
                           THEN << data.ticker >> ELSE <<>>)
       IN  IF ~data.ok
           THEN page' = [page EXCEPT !.messages = Append(@, assistantMessage)]
           ELSE IF submits[i].kind = "analysis"
           THEN page' = saveConversationToHistory(
                    [page EXCEPT
                        !.messages = << assistantMessage >>,
                        !.analysisPerformed = TRUE,
                        !.activeTicker = << data.ticker >>],
                    data.ticker, << assistantMessage >>, Now)
           ELSE IF Len(page.activeTicker) > 0
           THEN page' = saveConversationToHistory(
                    [page EXCEPT !.messages = Append(@, assistantMessage)],
                    page.activeTicker[1],
                    Append(page.messages, assistantMessage), Now)
           ELSE page' = [page EXCEPT !.messages = Append(@, assistantMessage)]

handleNewChat ==
    /\ page' = [page EXCEPT
          !.analysisPerformed = FALSE,
          !.messages = <<>>,
          !.input = <<>>,
          !.currentConversationId = <<>>,
          !.activeTicker = <<>>]
    /\ page' # page
    /\ UNCHANGED << submits, lookups, agentRuns, agentVars, gate, svc, chart >>

\* the entries of the list that a click is taken on: the two latest and
\* the oldest
Clicked(conversations) ==
    { k \in 1..Len(conversations) : k <= 2 \/ k = Len(conversations) }

handleSelectConversation ==
    \E k \in Clicked(page.conversations) :
        LET conversation == page.conversations[k] IN
        /\ page' = [page EXCEPT
              !.messages = conversation.messages,
              !.analysisPerformed = TRUE,
              !.currentConversationId = << conversation.id >>,
              !.activeTicker = << conversation.ticker >>]
        /\ page' # page
        /\ UNCHANGED << submits, lookups, agentRuns, agentVars, gate, svc, chart >>

UINext ==
    \/ TypeInput
    \/ Submit
    \/ \E i \in 1..Len(submits) : ValidateTicker(i)
    \/ \E i \in 1..Len(submits) : ValidationArrives(i)
    \/ \E i \in 1..Len(submits) : Route(i)
    \/ \E i \in 1..Len(submits) : MutationSettles(i)
    \/ handleNewChat
    \/ handleSelectConversation

UISpec == Init /\ [][UINext]_vars

\* ------------------------------------------- the page with a full history

MSFT == << "M", "S", "F", "T" >>

\* the conversation that the k-th latest of the earlier analyses left in the
\* list: its id is the time of that analysis, before every later submit
earlierConversation(k) ==
    LET ticker == IF k % 2 = 1 THEN MSFT ELSE AAPL IN
    [id |-> 0 - k, ticker |-> ticker,
     messages |-> << ChatMessage("assistant", Text("Answer", ticker, <<>>),
                                 << ticker >>) >>]

\* the page after conversationsKept + 1 analyses, each followed by a click
\* on New Analysis, every request settled
HistoryInit ==
    /\ AgentInit /\ gate = NoGate /\ Elsewhere
    /\ page = [messages |-> <<>>, input |-> <<>>, analysisPerformed |-> FALSE,
               conversations |-> [k \in 1..(conversationsKept + 1) |->
                                     earlierConversation(k)],
               currentConversationId |-> <<>>,
               activeTicker |-> <<>>, analyzeMutation |-> 0, chatMutation |-> 0]
    /\ submits = <<>>
    /\ lookups = <<>>
    /\ agentRuns = <<>>

HistorySpec == HistoryInit /\ [][UINext]_vars

\* ------------------------------------------------------------- the claims
TurnRunning == pc \in { "awaitModel", "awaitFetch", "awaitTimer" }

TurnEnded == pc \in { "done", "failed" }

MaxIterationsFailure ==
    outcome.status = "error" /\ outcome.error.cause = "Max iterations reached"

ModelFailure ==
    outcome.status = "error" /\ outcome.error.cause = "model invocation failed"

AllFiveRequestedTools ==
    /\ Len(respLog) = 5
    /\ \A i \in 1..5 : ~respLog[i].threw /\ respLog[i].nCalls >= 1

\* C1: the model is invoked at most 5 times in a turn; the turn fails with
\* the max-iterations error exactly when all 5 invocations each returned at
\* least one tool call, the failure comes after exactly the 5th invocation,
\* and no answer text is returned with it.
C1_IterationCap ==
    /\ modelCalls <= 5
    /\ Len(respLog) <= modelCalls
    /\ TurnEnded => (MaxIterationsFailure <=> AllFiveRequestedTools)
    /\ MaxIterationsFailure =>
          /\ pc = "failed"
          /\ modelCalls = 5
          /\ Len(respLog) = 5
          /\ outcome.answer = Literal("")

C1_Witness == MaxIterationsFailure /\ modelCalls = 5 /\ Len(toolRuns) >= 5

\* the requests of tool calls made by assistant messages: <<message, call>>
Requested(msgs) ==
    { <<i, k>> \in (1..Len(msgs)) \X (1..(MaxIrregularCalls + 1)) :
        msgs[i].role = "ai" /\ k <= Len(msgs[i].tool_calls) }

ToolResults(msgs) == { j \in 1..Len(msgs) : msgs[j].role = "tool" }

\* the assistant message whose tool calls are being answered at position j
TurnOf(msgs, j) ==
    CHOOSE i \in 0..(j - 1) :
        /\ i = 0 \/ (msgs[i].role = "ai" /\ Len(msgs[i].tool_calls) > 0)
        /\ \A m \in (i + 1)..(j - 1) :
              ~(msgs[m].role = "ai" /\ Len(msgs[m].tool_calls) > 0)

\* the place in the requesting message of the call a tool result answers
PlaceOf(msgs, j) ==
    LET i == TurnOf(msgs, j) IN
    IF i = 0 THEN {}
    ELSE { k \in 1..Len(msgs[i].tool_calls) :
              msgs[i].tool_calls[k].id = msgs[j].tool_call_id }

\* C2: every ToolResult in the message sequence carries a call identifier
\* that matches exactly one tool invocation requested by a preceding
\* Assistant message, and the ToolResults of one model turn stand in the
\* order in which the model requested the invocations.
C2_ToolResultsMatchRequests ==
    /\ \A j \in ToolResults(messages) :
          /\ Cardinality({ r \in Requested(messages) :
                r[1] < j /\ messages[r[1]].tool_calls[r[2]].id = messages[j].tool_call_id })
             = 1
          /\ Cardinality(PlaceOf(messages, j)) = 1
    /\ \A j1, j2 \in ToolResults(messages) :
          (j1 < j2 /\ TurnOf(messages, j1) = TurnOf(messages, j2)) =>
             \A k1 \in PlaceOf(messages, j1), k2 \in PlaceOf(messages, j2) : k1 < k2

C2_Witness ==
    \E j1, j2 \in ToolResults(messages) :
        /\ j2 = j1 + 1
        /\ TurnOf(messages, j1) = TurnOf(messages, j2)
        /\ messages[j1].tool_call_id # messages[j2].tool_call_id

\* C3: every turn of the agent loop eventually ends, by an answer or by a
\* failure, when every model call and every tool call eventually settles.
C3_TurnEnds == TurnRunning ~> TurnEnded

C3_Witness == TurnEnded /\ Len(toolRuns) >= 2 /\ Len(respLog) >= 3

\* the call a tool result answers
RequestOf(msgs, j) ==
    LET r == CHOOSE r \in Requested(msgs) :
                 msgs[r[1]].tool_calls[r[2]].id = msgs[j].tool_call_id
    IN  msgs[r[1]].tool_calls[r[2]]

\* the texts by which an adapter, or the loop for it, describes an error
ErrorTexts ==
    { "Error fetching stock data for", "Error fetching news for",
      "Error fetching company details for", "Error" }

\* what each adapter hands back when every call of the provider fails
FailingGatewayText(call) ==
    CASE call.name = "get_stock_data" ->
            Text("Error fetching stock data for", call.args.ticker,
                 << [msg |-> "Massive API failed", arg |-> <<>>] >>)
      [] call.name = "get_stock_news" ->
            Text("No recent news for", call.args.ticker, <<>>)
      [] OTHER ->
            Text("No company details found for", call.args.ticker, <<>>)

AdapterSettled == pc \notin { "awaitFetch", "awaitTimer" }

\* C4 as the specification words it: against a provider whose every call
\* fails, each adapter's result is the description of an error.
C4_EveryResultDescribesAnError ==
    gateway = GwAllFail =>
        \A j \in ToolResults(messages) : messages[j].content.kind \in ErrorTexts

\* C4: against a provider whose every call fails no adapter throws and each
\* run of an adapter ends in one text pushed as its tool result: the stock
\* data adapter's is the description of the error, the news and company
\* details adapters' are their "No recent news for X" and "No company
\* details found for X", the gateway having absorbed the failure; the turn
\* ends by an answer or at the iteration cap unless the model itself fails.
C4_FailingGateway ==
    gateway = GwAllFail =>
        /\ \A j \in ToolResults(messages) :
              messages[j].content = FailingGatewayText(RequestOf(messages, j))
        /\ AdapterSettled => Cardinality(ToolResults(messages)) = Len(toolRuns)
        /\ ~AdapterSettled => Cardinality(ToolResults(messages)) = Len(toolRuns) - 1
        /\ (TurnEnded /\ ~ModelFailure) =>
              \/ outcome.status = "ok" /\ pc = "done"
              \/ MaxIterationsFailure /\ AllFiveRequestedTools

C4_Witness ==
    /\ gateway = GwAllFail
    /\ TurnEnded
    /\ \E j1, j2 \in ToolResults(messages) :
          /\ messages[j1].content.kind = "Error fetching stock data for"
          /\ messages[j2].content.kind \in
                { "No recent news for", "No company details found for" }

LastThrew == Len(respLog) > 0 /\ respLog[Len(respLog)].threw

\* the primary aggregates fetch was made and the provider failed it
AggregatesUpstreamError ==
    /\ gateway["aggs"].status # "ok"
    /\ \E i \in 1..Len(toolRuns) : toolRuns[i].name = "get_stock_data"

C6_ModelFailureAborts ==
    \A i \in 1..Len(respLog) :
        respLog[i].threw =>
            /\ i = Len(respLog)
            /\ modelCalls = i
            /\ pc = "failed"
            /\ ModelFailure
            /\ outcome.error.agent = "Failed to analyze"
            /\ outcome.answer = Literal("")
            /\ adapter = NoAdapter
            /\ Len(toolRuns) = Cardinality(ToolResults(messages))
            /\ Len(toolRuns) =
                  Cardinality({ r \in Requested(messages) :
                      ~IsSkipped(messages[r[1]].tool_calls[r[2]]) })

C6_Witness == ModelFailure /\ Len(respLog) >= 2 /\ Len(toolRuns) >= 1

\* the length of the message sequence before the loop
InitialLength == Len(initialMessages(Literal(""), request.chatHistory))

\* the model asked for one tool on its first invocation and answered on
\* its second
OneToolThenAnswer ==
    /\ pc = "done"
    /\ Len(respLog) = 2
    /\ ~respLog[1].threw /\ respLog[1].nCalls = 1
    /\ ~respLog[2].threw /\ respLog[2].nCalls = 0
    /\ Len(toolRuns) = 1

\* C7 as the specification words it: the turn ends with a message sequence
\* of the initial length plus three.
C7_ThreeMoreMessages ==
    OneToolThenAnswer => Len(messages) = InitialLength + 3

\* C7: when the model requests one tool on its first invocation and answers
\* on its second, the loop runs exactly one tool, returns that answer's text
\* and ends with a message sequence of the initial length plus two, the
\* assistant's request and the tool result: the final answer is returned,
\* not appended.  In general a response without tool calls ends the turn
\* with that response's text, and a response with tool calls is in the
\* sequence before any of its tools runs.
C7_OneToolThenAnswer ==
    /\ OneToolThenAnswer =>
          /\ outcome.status = "ok"
          /\ outcome.answer = Literal(respLog[2].text)
          /\ Len(messages) = InitialLength + 2
          /\ messages[InitialLength + 1].role = "ai"
          /\ Len(messages[InitialLength + 1].tool_calls) = 1
          /\ messages[InitialLength + 2].role = "tool"
          /\ messages[InitialLength + 2].tool_call_id =
                messages[InitialLength + 1].tool_calls[1].id
    /\ \A i \in 1..Len(respLog) :
          (~respLog[i].threw /\ respLog[i].nCalls = 0) =>
              /\ i = Len(respLog)
              /\ pc = "done"
              /\ outcome.answer = Literal(respLog[i].text)
    /\ \A i \in 1..Len(toolRuns) :
          \E r \in Requested(messages) :
              messages[r[1]].tool_calls[r[2]].id = toolRuns[i].id

C7_Witness == OneToolThenAnswer /\ Len(messages) = InitialLength + 2

AsciiLetters == UpperSet \cup LowerSet

\* s is made of 1 to 6 letters, optionally followed by one '.' or '-' and
\* one more letter
TickerShaped(s) ==
    \/ /\ Len(s) \in 1..6
       /\ \A i \in 1..Len(s) : s[i] \in AsciiLetters
    \/ /\ Len(s) \in 3..8
       /\ \A i \in 1..(Len(s) - 2) : s[i] \in AsciiLetters
       /\ s[Len(s) - 1] \in { ".", "-" }
       /\ s[Len(s)] \in AsciiLetters

\* C8: the format check accepts exactly the strings that, surrounding blanks
\* trimmed and letters taken in either case, are made of 1 to 6 letters
\* optionally followed by one '.' or '-' and one more letter; "AAPL", "BRK.B"
\* and "BF-A" are accepted, "aapl1", "TOOLONG7", "" and "123" are rejected.
C8_TickerFormat ==
    gate.verdict # "untested" =>
        /\ gate.verdict = "accepted" <=> TickerShaped(trim(gate.input))
        /\ gate.verdict = "accepted" =>
              /\ Len(gate.ticker) = Len(trim(gate.input))
              /\ \A i \in 1..Len(gate.ticker) : gate.ticker[i] \notin LowerSet
        /\ gate.input \in { << "A", "A", "P", "L" >>,
                            << "B", "R", "K", ".", "B" >>,
                            << "B", "F", "-", "A" >> }
              => gate.verdict = "accepted"
        /\ gate.input \in { << "a", "a", "p", "l", "1" >>,
                            << "T", "O", "O", "L", "O", "N", "G", "7" >>,
                            <<>>,
                            << "1", "2", "3" >> }
              => gate.verdict = "rejected"

C8_Witness ==
    /\ gate.verdict = "accepted"
    /\ gate.input = << "A", "A", "A", "A", "A", "A", "-", "a" >>

RejectedStages == { "badFormat", "unvalidated", "notValid" }

\* C9: runStockAnalysis is invoked by Analyze only for a submit whose ticker
\* has passed the format check and then the existence check, with that very
\* ticker; a submit whose ticker either check rejects causes no invocation
\* of the agent, hence no model call and no call of the market-data gateway,
\* and one the format check rejects causes no provider lookup either.
C9_ValidatedBeforeAnalysis ==
    /\ \A n \in 1..Len(agentRuns) :
          agentRuns[n].procedure = "analyze" =>
              LET c == submits[agentRuns[n].submit] IN
              /\ c.kind = "analysis"
              /\ c.formatOk
              /\ TickerShaped(c.ticker)
              /\ agentRuns[n].ticker = c.ticker
              /\ c.validAnswer = << TRUE >>
              /\ \E l \in 1..Len(lookups) :
                    /\ lookups[l].submit = agentRuns[n].submit
                    /\ lookups[l].ticker = c.ticker
              /\ c.stage \in { "responded", "settled" }
    /\ \A i \in 1..Len(submits) :
          /\ submits[i].stage \in RejectedStages =>
                \A n \in 1..Len(agentRuns) : agentRuns[n].submit # i
          /\ (submits[i].kind = "analysis" /\ ~submits[i].formatOk) =>
                /\ submits[i].stage = "badFormat"
                /\ \A l \in 1..Len(lookups) : lookups[l].submit # i
          /\ (submits[i].kind = "analysis" /\ submits[i].validAnswer # << TRUE >>) =>
                \A n \in 1..Len(agentRuns) : agentRuns[n].submit # i

C9_Witness ==
    /\ \E i \in 1..Len(submits) : submits[i].stage = "notValid"
    /\ \E n \in 1..Len(agentRuns) : agentRuns[n].procedure = "analyze"

AdapterRunSettled ==
    /\ Len(messages) = InitialLength + 2
    /\ messages[InitialLength + 2].role = "tool"

\* the call's adapter gets as far as asking the Gateway
AsksGateway(call) == ~adapterCall(call.name, call.args).done

\* C10: when the Gateway's answer to the news adapter is empty or absent the
\* adapter returns "No recent news for X", and when its answer to the
\* company details adapter is empty or absent that adapter returns "No
\* company details found for X", X being the ticker as requested; neither
\* ever returns an empty or absent structure.
C10_NoDataTexts ==
    AdapterRunSettled =>
        LET call == messages[InitialLength + 1].tool_calls[1]
            content == messages[InitialLength + 2].content
        IN  /\ (call.name = "get_stock_news" /\ AsksGateway(call)) =>
                 /\ Len(getNews(gateway["news"])) = 0 =>
                       content = Text("No recent news for", call.args.ticker, <<>>)
                 /\ Len(getNews(gateway["news"])) > 0 =>
                       /\ content.kind = "NewsJson"
                       /\ Len(content.detail) = Len(getNews(gateway["news"]))
            /\ (call.name = "get_company_details" /\ AsksGateway(call)) =>
                 /\ Len(getTickerDetails(gateway["details"])) = 0 =>
                       content = Text("No company details found for",
                                      call.args.ticker, <<>>)
                 /\ Len(getTickerDetails(gateway["details"])) > 0 =>
                       /\ content.kind = "CompanyDetailsJson"
                       /\ Len(content.detail) = 1

C10_Witness ==
    /\ AdapterRunSettled
    /\ gateway["news"] = Ok(<<>>)
    /\ messages[InitialLength + 2].content = Text("No recent news for", aapl, <<>>)


\* the stock data adapter's run has settled with its metrics
StockDataReported ==
    /\ AdapterRunSettled
    /\ messages[InitialLength + 1].tool_calls[1].name = "get_stock_data"
    /\ messages[InitialLength + 2].content.kind = "StockDataJson"

\* C11: for a latest bar closing at 100 after a bar closing at 95, RSI 55,
\* SMA10 98 and SMA20 90 the stock data adapter reports change 5,
\* changePercent 5/95*100, rsi 55, sma10 98 and sma20 90; in general change
\* is the latest close minus the prior close and changePercent is change
\* divided by the prior close times 100, and with a single bar previousClose
\* is currentPrice and change and changePercent are 0.
C11_StockMetrics ==
    StockDataReported =>
        LET m == messages[InitialLength + 2].content.detail[1]
            bars == gateway["aggs"].results
            n == Len(bars)
        IN  /\ m.currentPrice = bars[n].c
            /\ n >= 2 =>
                  /\ m.previousClose = bars[n - 1].c
                  /\ m.change = bars[n].c - bars[n - 1].c
                  /\ m.changePercent[2] # 0
                  /\ m.changePercent[1] * bars[n - 1].c
                        = m.change * 100 * m.changePercent[2]
            /\ n = 1 =>
                  /\ m.previousClose = m.currentPrice
                  /\ m.change = 0
                  /\ m.changePercent[1] = 0 /\ m.changePercent[2] # 0
            /\ (/\ n = 2 /\ bars[2].c = 100 /\ bars[1].c = 95
                /\ gateway["rsi"] = Ok(<< 55 >>)
                /\ gateway["sma10"] = Ok(<< 98 >>)
                /\ gateway["sma20"] = Ok(<< 90 >>)) =>
                  /\ m.change = 5
                  /\ m.changePercent[1] * 95 = 5 * 100 * m.changePercent[2]
                  /\ m.rsi = << 55 >>
                  /\ m.sma10 = << 98 >>
                  /\ m.sma20 = << 90 >>

C11_Witness ==
    /\ StockDataReported
    /\ messages[InitialLength + 2].content.detail[1].change = 5
    /\ messages[InitialLength + 2].content.detail[1].rsi = << 55 >>
    /\ messages[InitialLength + 2].content.detail[1].sma20 = << 90 >>


\* the input the router makes of its request
RouterInput ==
    IF request.procedure = "analyze"
    THEN Text("AnalyzePrompt", request.ticker, <<>>)
    ELSE Text("ChatPrompt", request.ticker, << request.question >>)

\* C12: the first model invocation of a turn is given exactly the system
\* instructions, then the prior history entries in their order, role user
\* as a user message and any other as an assistant message, then the current
\* input as last message; Chat gives its chatHistory as that history and
\* Analyze gives none.
C12_InitialMessages ==
    Len(invoked) >= 1 =>
        LET first == invoked[1]
            h == request.chatHistory
        IN  /\ request.procedure = "analyze" => Len(h) = 0
            /\ Len(first) = Len(h) + 2
            /\ first[1].role = "system"
            /\ first[1].content = SYSTEM_PROMPT
            /\ \A i \in 1..Len(h) :
                  /\ first[i + 1].role = IF h[i].role = "user" THEN "human" ELSE "ai"
                  /\ first[i + 1].content = h[i].content
                  /\ Len(first[i + 1].tool_calls) = 0
            /\ first[Len(h) + 2].role = "human"
            /\ first[Len(h) + 2].content = RouterInput

C12_Witness ==
    /\ Len(invoked) >= 2
    /\ request.procedure = "chat"
    /\ Len(request.chatHistory) = 2
    /\ invoked[1][3].role = "ai"


\* C13: runStockAnalysis never changes the chatHistory it was given: from
\* the start of a turn to its end, by an answer or by a failure, no step
\* changes its length, its order or its contents.
C13_HistoryUntouched ==
    [][pc # "ready" => request'.chatHistory = request.chatHistory]_vars

C13_Witness ==
    /\ TurnEnded
    /\ Len(request.chatHistory) = 2
    /\ Len(messages) > InitialLength
    /\ Len(respLog) >= 2


\* the submits whose Analyze or Chat request has been started and has not
\* run to completion
TurnsInFlight ==
    { i \in 1..Len(submits) : submits[i].stage \in { "requested", "responded" } }

\* C14: under any interleaving of submits, validation answers and request
\* completions no Analyze or Chat request is started before the previous
\* turn has run to completion: at most one turn is in flight at any time.
C14_OneTurnInFlight == Cardinality(TurnsInFlight) <= 1

\* two Analyze requests of two submits are in flight together
C14_Witness ==
    \E i, j \in TurnsInFlight :
        i # j /\ submits[i].kind = "analysis" /\ submits[j].kind = "analysis"


\* C15: the existence check answers valid = true only when the provider
\* responded successfully and its result holds a ticker; a 404, any other
\* non-success status, an empty result and an internal error all give
\* valid = false; and the page starts the analysis only after an answer of
\* valid = true.
C15_ExistenceCheck ==
    \A i \in 1..Len(submits) :
        /\ Len(submits[i].routeSaw) > 0 =>
              LET saw == submits[i].routeSaw[1]
                  valid == submits[i].validAnswer[1]
              IN  /\ valid <=> /\ saw.apiKey
                               /\ saw.answer.status = "ok"
                               /\ Len(saw.answer.ticker) > 0
                  /\ saw.answer.status \in { "not_found", "http_error", "network_error" }
                        => ~valid
                  /\ (saw.answer.status = "ok" /\ Len(saw.answer.ticker) = 0) => ~valid
                  /\ ~saw.apiKey => ~valid
        /\ (submits[i].kind = "analysis"
              /\ submits[i].stage \in { "requested", "responded", "settled" })
              => submits[i].validAnswer = << TRUE >>

C15_Witness ==
    \E i, j \in 1..Len(submits) :
        /\ submits[i].stage = "notValid"
        /\ submits[i].routeSaw[1].answer.status = "ok"
        /\ submits[j].kind = "analysis"
        /\ submits[j].stage = "settled"


\* the calls of a response that the loop does not skip, in order
Kept(calls) == SelectSeq(calls, LAMBDA c : ~IsSkipped(c))

\* the ToolResults appended so far, in order
ResultsSoFar == SelectSeq(messages, LAMBDA m : m.role = "tool")

AdapterAwaited == pc \in { "awaitFetch", "awaitTimer" }

\* C16: a requested invocation that names an unregistered tool or has no
\* call identifier is skipped: no ToolResult is appended for it and no
\* adapter runs for it; the other invocations of the response are still
\* processed in their order, and the loop goes back to awaiting the model.
C16_SkippedInvocations ==
    Len(toolCalls) > 0 =>
        /\ \A k \in 1..Len(toolCalls) :
              (toolCalls[k].name \notin ToolNames \/ toolCalls[k].id = NoId) =>
                  /\ \A r \in 1..Len(toolRuns) : toolRuns[r] # toolCalls[k]
                  /\ \A j \in 1..Len(ResultsSoFar) :
                        \/ toolCalls[k].id = NoId
                        \/ ResultsSoFar[j].tool_call_id # toolCalls[k].id
                  /\ AdapterAwaited => idx # k
        /\ \A j \in 1..Len(ResultsSoFar) : ResultsSoFar[j].tool_call_id # NoId
        /\ Len(ResultsSoFar) <= Len(Kept(toolCalls))
        /\ \A j \in 1..Len(ResultsSoFar) :
              ResultsSoFar[j].tool_call_id = Kept(toolCalls)[j].id
        /\ Len(toolRuns) <= Len(Kept(toolCalls))
        /\ \A r \in 1..Len(toolRuns) : toolRuns[r] = Kept(toolCalls)[r]
        /\ ~AdapterAwaited =>
              /\ modelCalls = 2
              /\ Len(invoked) = 2
              /\ Len(ResultsSoFar) = Len(Kept(toolCalls))
        /\ Len(Kept(toolCalls)) = 0 => ~AdapterAwaited

C16_Witness ==
    /\ Len(toolCalls) = 2
    /\ toolCalls[1].name = "get_weather"
    /\ toolCalls[2].name = "get_stock_data"
    /\ toolCalls[1].id # NoId
    /\ toolCalls[2].id # NoId
    /\ pc = "awaitModel"
    /\ Len(ResultsSoFar) = 1
    /\ Len(toolRuns) = 1


\* how an adapter ends once every call it awaits has been answered
RECURSIVE SettleAdapter(_, _)
SettleAdapter(ad, gw) ==
    IF ad.at \in { "pause1", "pause2" }
    THEN SettleAdapter(stockDataAfterPause(ad), gw)
    ELSE LET r == adapterResume(ad, gw[ad.at]) IN
         IF r.done THEN r ELSE SettleAdapter(r.adapter, gw)

\* how the adapter of a call ends against the turn's providers
AdapterOutcome(call) ==
    LET r == adapterCall(call.name, call.args) IN
    IF r.done THEN r ELSE SettleAdapter(r.adapter, gateway)

\* the ToolResults with the call's identifier among the given messages
ResultsFor(call, msgs) ==
    { j \in 1..Len(msgs) : msgs[j].role = "tool" /\ msgs[j].tool_call_id = call.id }

\* C17: for every requested invocation whose tool is registered and whose
\* call identifier is present, exactly one ToolResult tagged with that
\* identifier is appended before the next model invocation; its content is
\* the adapter's output when the adapter returns, and a string describing
\* the error when the adapter throws.
C17_OneResultPerInvocation ==
    \A k \in 1..Len(toolCalls) :
        (toolCalls[k].name \in ToolNames /\ toolCalls[k].id # NoId) =>
            /\ Cardinality(ResultsFor(toolCalls[k], messages)) <= 1
            /\ Len(invoked) >= 2 =>
                  Cardinality(ResultsFor(toolCalls[k], invoked[2])) = 1
            /\ \A j \in ResultsFor(toolCalls[k], messages) :
                  LET o == AdapterOutcome(toolCalls[k]) IN
                  /\ ~o.threw => /\ messages[j].content = o.result
                                 /\ messages[j].content.kind # "Error"
                  /\ o.threw => messages[j].content = Text("Error", <<>>, << o.error >>)

C17_Witness ==
    /\ Len(toolCalls) = 2
    /\ Len(invoked) = 2
    /\ Len(ResultsSoFar) = 2
    /\ ResultsSoFar[1].tool_call_id = toolCalls[1].id
    /\ ResultsSoFar[1].content.kind = "StockDataJson"
    /\ ResultsSoFar[2].tool_call_id = toolCalls[2].id
    /\ ResultsSoFar[2].content.kind = "Error"
    /\ AdapterOutcome(toolCalls[2]).threw


\* the ToolResults among the messages given to the second model invocation
ResultsGiven == SelectSeq(invoked[2], LAMBDA m : m.role = "tool")

\* C18: the invocations of one model turn run one after another in the
\* order requested: at most one adapter is running at any time, the
\* adapter of an invocation starts only after the ToolResult of the one
\* before it has been appended, and the model is invoked again only after
\* every invocation of the turn has been processed.
C18_OneAfterAnother ==
    /\ Len(toolRuns) <= Len(ResultsSoFar) + 1
    /\ Len(ResultsSoFar) <= Len(toolRuns)
    /\ AdapterAwaited <=> Len(toolRuns) = Len(ResultsSoFar) + 1
    /\ AdapterAwaited => toolCalls[idx] = toolRuns[Len(toolRuns)]
    /\ \A r \in 1..Len(toolRuns) :
          \E k \in 1..Len(toolCalls) :
              /\ toolRuns[r] = toolCalls[k]
              /\ \A q \in 1..(r - 1) :
                    \E h \in 1..(k - 1) : toolRuns[q] = toolCalls[h]
    /\ \A j \in 1..Len(ResultsSoFar) :
          ResultsSoFar[j].tool_call_id = toolRuns[j].id
    /\ Len(invoked) >= 2 =>
          /\ ~AdapterAwaited
          /\ Len(ResultsGiven) = Len(Kept(toolCalls))
          /\ \A j \in 1..Len(ResultsGiven) :
                ResultsGiven[j].tool_call_id = Kept(toolCalls)[j].id

C18_Witness ==
    /\ Len(toolCalls) = 2
    /\ pc = "awaitFetch"
    /\ idx = 2
    /\ Len(toolRuns) = 2
    /\ toolRuns[1].name = "get_stock_data"
    /\ toolRuns[2].name = "get_stock_news"
    /\ Len(ResultsSoFar) = 1
    /\ Len(invoked) = 1


\* C19: an adapter is invoked only after the invocation's argument payload
\* has been validated against the adapter's schema: a payload that does not
\* conform (no ticker, a limit that is not a number) never reaches the
\* adapter function.
C19_ValidatedPayloads ==
    \A r \in 1..Len(toolRuns) : toolRuns[r].args.form = "ok"

C19_Witness ==
    /\ pc = "awaitFetch"
    /\ Len(toolRuns) = 1
    /\ toolRuns[1].name = "get_stock_news"
    /\ toolRuns[1].args.form = "badLimit"
    /\ adapter.calls = << GatewayCall("news", AAPL, NotANumber) >>


\* the first sequence is the beginning of the second
IsPrefix(a, b) == Len(a) <= Len(b) /\ \A i \in 1..Len(a) : a[i] = b[i]

\* C20: within a turn the message sequence only grows at its end: no step
\* removes, replaces or reorders a message already there, and the messages
\* given to one model invocation are the beginning of those given to the
\* next.
C20_AppendOnly ==
    /\ [][IsPrefix(messages, messages')]_vars
    /\ [](\A k \in 1..(Len(invoked) - 1) :
            /\ IsPrefix(invoked[k], invoked[k + 1])
            /\ Len(invoked[k]) < Len(invoked[k + 1]))
    /\ [](Len(invoked) >= 1 => IsPrefix(invoked[Len(invoked)], messages))

C20_Witness ==
    /\ Len(invoked) = 3
    /\ Len(invoked[3]) >= Len(invoked[1]) + 3
    /\ invoked[3][Len(invoked[1]) + 1].role = "ai"
    /\ invoked[3][Len(invoked[1]) + 2].role = "tool"
    /\ messages = invoked[3]

MethodSettled(method) == svc.at = "settled" /\ svc.method = method

\* C21: getStockAggregates fails with a no-data error when the provider's
\* result set is empty or missing and with an upstream error when the
\* provider answers with a non-success status; it returns the bars only
\* when the response is successful and not empty.
C21_AggregatesOutcome ==
    MethodSettled("getStockAggregates") =>
        LET a == svc.answer[1]
            r == svc.result[1]
        IN  /\ (a.status = "ok" /\ Len(a.results) = 0) =>
                  /\ r.threw
                  /\ r.error = [msg |-> "No stock data available for",
                                 arg |-> svc.ticker]
            /\ a.status = "http_error" =>
                  /\ r.threw
                  /\ r.error.msg = "Massive API failed"
            /\ ~r.threw <=> (a.status = "ok" /\ Len(a.results) > 0)
            /\ ~r.threw => r.value = a.results

C21_Witness ==
    /\ MethodSettled("getStockAggregates")
    /\ svc.answer[1] = Ok(<<>>)
    /\ svc.result[1].threw
    /\ svc.result[1].error.msg = "No stock data available for"

NonCritical == Methods \ { "getStockAggregates" }

CallFailed == svc.answer[1].status # "ok"

\* C22: the non-critical gateway methods never raise: on any failure of the
\* outbound call getNews, getRSI and getSMA return an empty sequence and
\* getTickerDetails and getPreviousClose return absent; only
\* getStockAggregates lets an error past the gateway.
C22_NonCriticalNeverRaise ==
    svc.at = "settled" =>
        /\ svc.method \in NonCritical =>
              /\ ~svc.result[1].threw
              /\ CallFailed => svc.result[1].value = <<>>
        /\ svc.result[1].threw => svc.method = "getStockAggregates"
        /\ (svc.method \in { "getTickerDetails", "getPreviousClose" })
              => Len(svc.result[1].value) <= 1

C22_Witness ==
    /\ MethodSettled("getNews")
    /\ svc.answer[1] = HttpError
    /\ svc.result[1] = [threw |-> FALSE, value |-> <<>>, error |-> NoError]

\* C23: every gateway method sends exactly one request per invocation,
\* whether the request succeeds or fails: nothing is asked a second time.
C23_OneOutboundCall ==
    /\ svc.at = "idle" => Len(svc.outbound) = 0
    /\ svc.at # "idle" =>
          svc.outbound = << GatewayCall(endpointOf(svc.method), svc.ticker, svc.param) >>

C23_Witness ==
    /\ MethodSettled("getSMA")
    /\ svc.answer[1] = HttpError
    /\ Len(svc.outbound) = 1

\* the requests the stock data adapter makes for ticker T, in order
StockDataCalls(T) ==
    << GatewayCall("aggs", T, 30), GatewayCall("rsi", T, 14),
       GatewayCall("sma10", T, 10), GatewayCall("sma20", T, 20) >>

\* how many requests the stock data adapter has made when it stands at a place
CallsMadeAt(at) ==
    CASE at = "aggs" -> 1
      [] at \in { "rsi", "pause1" } -> 2
      [] at \in { "sma10", "pause2" } -> 3
      [] OTHER -> 4

StockDataRunning == AdapterAwaited /\ adapter.name = "get_stock_data"

AggregatesFail ==
    /\ StockDataRunning
    /\ pc = "awaitFetch"
    /\ adapter.at = "aggs"
    /\ getStockAggregates(toUpperCase(adapter.args.ticker), gateway["aggs"]).threw

NewsReported ==
    /\ AdapterRunSettled
    /\ messages[InitialLength + 1].tool_calls[1].name = "get_stock_news"
    /\ messages[InitialLength + 1].tool_calls[1].args.form = "ok"
    /\ messages[InitialLength + 2].content.kind = "NewsJson"

\* C25: the news adapter, given a ticker and an optional limit (5 when not
\* given), returns at most limit articles whatever number of articles the
\* gateway returns, each with the sentiment of its first insight, or
\* "neutral" when it has no insight.
C25_AtMostLimitArticles ==
    NewsReported =>
        LET args == messages[InitialLength + 1].tool_calls[1].args
            limit == IF Len(args.limit) = 0 THEN 5 ELSE args.limit[1]
            articles == messages[InitialLength + 2].content.detail
            news == gateway["news"].results
        IN  /\ Len(articles) <= limit
            /\ \A i \in 1..Len(articles) :
                  articles[i].sentiment =
                      IF Len(news[i].insights) = 0 THEN "neutral"
                      ELSE news[i].insights[1]

C25_Witness ==
    /\ NewsReported
    /\ messages[InitialLength + 1].tool_calls[1].args.limit = << 1 >>
    /\ Len(messages[InitialLength + 2].content.detail) = 2
    /\ messages[InitialLength + 2].content.detail[1].sentiment = "positive"
    /\ messages[InitialLength + 2].content.detail[2].sentiment = "neutral"

\* the values the gateway hands the adapter for an indicator
GatewayValues(endpoint) ==
    IF gateway[endpoint].status = "ok" THEN gateway[endpoint].results ELSE <<>>

\* the snapshot's field for an indicator, as the claim has it
LatestOrNull(values) == IF Len(values) = 0 THEN <<>> ELSE << values[1] >>

\* C30: the stock metrics snapshot reports for rsi, sma10 and sma20 exactly
\* the most recent value the gateway returned whenever the gateway returned
\* a sequence that is not empty, the value 0 included, and null only when
\* the gateway returned an empty sequence.
C30_LatestIndicatorValues ==
    StockDataReported =>
        LET m == messages[InitialLength + 2].content.detail[1]
        IN  /\ m.rsi = LatestOrNull(GatewayValues("rsi"))
            /\ m.sma10 = LatestOrNull(GatewayValues("sma10"))
            /\ m.sma20 = LatestOrNull(GatewayValues("sma20"))

C30_Witness ==
    /\ StockDataReported
    /\ gateway["rsi"] = Ok(<< 0 >>)
    /\ messages[InitialLength + 2].content.detail[1].rsi = <<>>
    /\ messages[InitialLength + 2].content.detail[1].sma10 = << 98 >>

\* C26: the chart's effect issues a fetch only when the ticker or the
\* timeframe differs from the pair fetched last, and a run of the effect
\* with ticker and timeframe unchanged issues no request.
C26_NoDuplicateFetch ==
    /\ [](\A i \in 1..Len(chart.sent) :
            chart.sent[i].by = "effect" =>
                \/ chart.sent[i].ticker # chart.sent[i].lastTicker
                \/ chart.sent[i].timeframe # chart.sent[i].lastTimeframe)
    /\ [](chart.mounted =>
            /\ chart.lastFetchedTicker = chart.ticker
            /\ chart.lastFetchedTimeframe = chart.timeframe)
    /\ [][chart'.effects # chart.effects =>
            (chart'.sent # chart.sent <=>
                \/ chart'.ticker # chart.lastFetchedTicker
                \/ chart'.timeframe # chart.lastFetchedTimeframe)]_vars

C26_Witness ==
    /\ chart.effects = 3
    /\ Len(chart.sent) = 2
    /\ chart.sent[2].by = "effect"
    /\ chart.sent[2].timeframe = "7D"
    /\ chart.sent[2].lastTimeframe = "30D"

\* C28: in StockChart, for any order of arrival of the responses to
\* overlapping fetches, once no fetch is in flight the chartData displayed
\* is the response to the request for the ticker and timeframe now
\* selected, and the loading flag is true whenever a fetch is in flight.
C28_LatestResponseShown ==
    /\ (chart.mounted /\ chart.inFlight = {} /\ ChartView(chart) = "chart") =>
          chart.chartData =
              << [ticker |-> chart.ticker, timeframe |-> chart.timeframe] >>
    /\ chart.inFlight # {} => chart.loading

C28_Witness ==
    /\ chart.mounted
    /\ Len(chart.sent) = 2
    /\ chart.inFlight = {}
    /\ ChartView(chart) = "chart"
    /\ chart.ticker = chart.sent[2].ticker
    /\ chart.chartData[1].ticker = chart.sent[1].ticker
    /\ chart.chartData[1].ticker # chart.ticker

\* the tickers that the messages of a conversation were produced for: the
\* ticker an analysis result carries and the ticker an answer is about
ProducedFor(message) ==
    (IF Len(message.ticker) > 0 THEN { message.ticker[1] } ELSE {})
    \cup (IF message.content.kind = "Answer" THEN { message.content.ticker } ELSE {})

\* C27: under any interleaving of submits, New Analysis clicks, conversation
\* selections and request completions, every entry of the conversations list
\* holds only messages produced for that entry's ticker: an analysis result
\* for ticker T is never stored into a conversation whose ticker is not T.
C27_ConversationKeepsItsTicker ==
    \A k \in 1..Len(page.conversations) :
        \A n \in 1..Len(page.conversations[k].messages) :
            ProducedFor(page.conversations[k].messages[n])
                \subseteq { page.conversations[k].ticker }

\* the result of an analysis of one ticker has settled while an earlier
\* conversation of another ticker was the selected one
C27_Witness ==
    \E i \in 1..Len(submits) :
        /\ submits[i].kind = "analysis"
        /\ submits[i].stage = "settled"
        /\ submits[i].result.ok
        /\ \E k \in 1..Len(page.conversations) :
              /\ page.conversations[k].ticker # submits[i].result.ticker
              /\ \E n \in 1..Len(page.conversations[k].messages) :
                    page.conversations[k].messages[n].ticker
                        = << submits[i].result.ticker >>

\* the ids of the conversations, in the order of the list
ConversationIds(conversations) ==
    [k \in 1..Len(conversations) |-> conversations[k].id]

\* the first entries of a list, at most n of them
FirstOf(conversations, n) ==
    SubSeq(conversations, 1, IF Len(conversations) < n THEN Len(conversations) ELSE n)

\* a step puts one new conversation at the head of the list and keeps, in
\* their order, the conversationsKept entries that were first: the entries
\* behind them, the oldest, are the ones that go
NewConversationFirst ==
    /\ Len(page'.conversations) > 0
    /\ \A k \in 1..Len(page.conversations) :
          page'.conversations[1].id > page.conversations[k].id
    /\ page'.currentConversationId = << page'.conversations[1].id >>
    /\ Tail(page'.conversations) = FirstOf(page.conversations, conversationsKept)

====
